---- MODULE Spec2Model ----
(***************************************************************************)
(* Provider registries (AIManager, ProductionSearchManager), the          *)
(* capability router, pipeline executor and session store of              *)
(* SuperOrchestrator, and the session routes of routes/analysis.py.        *)
(*                                                                         *)
(* The managers are separate module-level singletons that share no state   *)
(* (ai_manager.py:593, production_search_manager.py:742), so a behaviour   *)
(* exercises one of them; the variable unit names which.                   *)
(***************************************************************************)
EXTENDS Integers, Sequences, FiniteSets

VARIABLES
    unit,              \* the singleton this behaviour exercises
    now,               \* time.time(), seconds since the process started
    has_lib,           \* AI providers whose client library imported (HAS_GEMINI, ...)
    providers,         \* AIManager.providers
    best,              \* last return value of AIManager.get_best_provider
    callers,           \* the calls of _record_failure / _record_success in progress
    answer,            \* last return value of AIManager.generate_response
    tally,             \* history: the calls of each kind begun on each AI provider
    disabled_at,       \* history: when each AI provider was last disabled
    streak,            \* history: failures recorded in a row since healthy with counter 0
    search_providers,  \* ProductionSearchManager.providers
    order,             \* last return value of _get_provider_order
    cache,             \* ProductionSearchManager.cache: key -> entry
    cache_op,          \* the last operation on the cache and what it returned
    put_log,           \* history: a save the behaviour follows (key, value, time)
    services,          \* SuperOrchestrator.services: the registered service names
    service_methods,   \* SuperOrchestrator.service_methods: service -> operation names
    call,              \* the router invocation in progress and its position
    invoked,           \* operations the invocation has called, in order
    warned,            \* patterns the invocation has logged a failure for
    ret,               \* return value of the last router invocation
    service_kind,      \* what the operations of each service return during a run
    helpers,           \* what the module-level search helpers do during a run
    pipeline,          \* the pipeline run in progress and its position
    stage_results,     \* the results of the stages executed (complete_analysis_data)
    executed,          \* the stage functions the run has called, in order
    execution_state,   \* SuperOrchestrator.execution_state: session -> state
    envelope,          \* return value of execute_synchronized_analysis
    callback,          \* the progress_callback argument of the run and what it does
    progress,          \* the callback invocations and stage calls of the run, in order
    active_sessions,   \* routes/analysis.py active_sessions: session -> status
    request,           \* the last /analyze request and the handler's position
    response,          \* the last HTTP response of the session routes
    threads,           \* the other request threads and the statement each is at
    sync_lock,         \* SuperOrchestrator.sync_lock: "free" or the operation holding it
    service_status,    \* SuperOrchestrator.service_status
    recursion_depth,   \* SuperOrchestrator._global_recursion_depth
    reset,             \* emergency_reset: its position and whether it has returned
    observed           \* return value of the last get_session_progress

ai_vars == <<now, has_lib, providers, best, callers, answer>>

history_vars == <<disabled_at, streak, put_log, tally>>

cache_vars == <<cache, cache_op>>

search_vars == <<search_providers, order, cache_vars>>

progress_vars == <<callback, progress>>

store_vars == <<sync_lock, service_status, recursion_depth, reset, observed>>

pipeline_vars ==
    <<service_kind, helpers, pipeline, stage_results, executed, execution_state,
      envelope, progress_vars, store_vars>>

route_vars == <<active_sessions, request, response, threads>>

router_vars ==
    <<services, service_methods, call, invoked, warned, ret, pipeline_vars,
      route_vars>>

vars == <<unit, ai_vars, history_vars, search_vars, router_vars>>

\* ------------------------------------------------------------------------
\* Bounds of the model
\* ------------------------------------------------------------------------
MaxTime == 600
TimeStep == 300

\* Failures that requests already in flight may record past max_errors.
MaxOvershoot == 1

\* Most API keys the environment configures.
MaxKeys == 2

\* Most API keys configured where the breaker's history is followed.
MaxBreakerKeys == 1

\* Longest pattern list handed to the router.
MaxPatterns == 3

\* The clock of the search manager: its step and its last value.
CacheStep == 1800
MaxCacheTime == 5400

\* Most entries the cache holds.
MaxEntries == 2

\* Most services and helpers that do not simply succeed during a run.
MaxFaults == 2

\* Most API keys configured where the two search entry points are compared.
MaxFailoverKeys == 1

\* Threads that record outcomes on the AI registry at the same time, and
\* the most calls they make.
MaxCallers == 2
MaxRaceCalls == 3

\* Most AI providers with a key when generate_response is followed.
MaxGenerateKeys == 2

\* Most request threads inside an operation at the same time.
MaxThreads == 2

\* Most sessions the /analyze route creates.
MaxSessions == 2

\* The same, for the runs that report their progress.
MaxWatchedFaults == 1

\* ------------------------------------------------------------------------
\* AIManager (src/src/services/ai_manager.py)
\* ------------------------------------------------------------------------
\* Providers in the insertion order of the providers dict.
AINames == <<"gemini", "groq", "openai", "huggingface">>

AIProviders == {AINames[i] : i \in 1..Len(AINames)}

AIPriority == [gemini |-> 1, groq |-> 2, openai |-> 3, huggingface |-> 4]

AIMaxErrors == [gemini |-> 2, groq |-> 2, openai |-> 2, huggingface |-> 3]

\* Seconds a disabled provider waits before get_best_provider re-enables it.
Cooldown == 300

\* last_success = None
NoTime == -1

\* Return values of get_best_provider: a provider name or None; NoCall
\* when the last operation was not get_best_provider.
NoCall == "NoCall"

NoneValue == "None"

\* The request threads followed statement by statement.
ThreadPool == <<"t1", "t2", "t3">>

Threads == {ThreadPool[k] : k \in 1..MaxThreads}

NoEntry == [results |-> NoneValue, timestamp |-> NoTime, provider |-> NoneValue]

\* A thread that is in no operation.
IdleThread ==
    [op |-> "none", pc |-> "idle", session |-> NoneValue, key |-> <<>>,
     i |-> 0, entry |-> NoEntry, result |-> NoneValue]

NoThreads == [t \in Threads |-> IdleThread]

\* Position of a provider in the providers dict.
AIIndex(p) == CHOOSE i \in 1..Len(AINames) : AINames[i] = p

\* The providers dict after __init__ and initialize_providers, for the set
\* keys of providers whose client could be created from the environment.
\* error_count is written by the registry but read by none of its
\* decisions; it is left out.
InitialProviders(keys) ==
    [p \in AIProviders |->
        [client |-> p \in keys,
         available |-> p \in keys,
         priority |-> AIPriority[p],
         max_errors |-> AIMaxErrors[p],
         last_success |-> NoTime,
         consecutive_failures |-> 0]]

\* HAS_GEMINI / HAS_GROQ_CLIENT / HAS_OPENAI; huggingface needs no library.
HasLib(p) == p = "huggingface" \/ p \in has_lib

\* Reprobe that re-enables the provider and leaves its counters as they are.
ReprobeKeepCount(ps, t) ==
    [p \in AIProviders |->
        IF /\ ~ps[p].available
           /\ ps[p].last_success # NoTime
           /\ t - ps[p].last_success > Cooldown
        THEN [ps[p] EXCEPT !.available = IF HasLib(p) THEN TRUE ELSE @]
        ELSE ps[p]]

\* get_best_provider, first loop: the cooldown reprobe.
Reprobe(ps, t) ==
    [p \in AIProviders |->
        IF /\ ~ps[p].available
           /\ ps[p].last_success # NoTime
           /\ t - ps[p].last_success > Cooldown
        THEN [ps[p] EXCEPT !.consecutive_failures = 0,
                           !.available = IF HasLib(p) THEN TRUE ELSE @]
        ELSE ps[p]]

\* get_best_provider, the health filter.
HealthFilter(ps) ==
    {p \in AIProviders :
        ps[p].available /\ ps[p].consecutive_failures < ps[p].max_errors}

\* get_best_provider, the reset done when the filter leaves nobody.
GlobalReset(ps) ==
    [p \in AIProviders |-> [ps[p] EXCEPT !.consecutive_failures = 0]]

\* The sort with reverse=True.
AIKeyLessReversed(ps, p, q) ==
    \/ ps[p].priority > ps[q].priority
    \/ /\ ps[p].priority = ps[q].priority
       /\ ps[p].consecutive_failures > ps[q].consecutive_failures
    \/ /\ ps[p].priority = ps[q].priority
       /\ ps[p].consecutive_failures = ps[q].consecutive_failures
       /\ AIIndex(p) < AIIndex(q)

\* The sort key (priority, consecutive_failures), compared as tuples;
\* list.sort is stable, so equal keys keep the dict order.
AIKeyLess(ps, p, q) ==
    \/ ps[p].priority < ps[q].priority
    \/ /\ ps[p].priority = ps[q].priority
       /\ ps[p].consecutive_failures < ps[q].consecutive_failures
    \/ /\ ps[p].priority = ps[q].priority
       /\ ps[p].consecutive_failures = ps[q].consecutive_failures
       /\ AIIndex(p) < AIIndex(q)

\* Head of the sorted candidate list, None when the list is empty.
AIHead(ps, cands) ==
    IF cands = {} THEN NoneValue
    ELSE CHOOSE p \in cands : \A q \in cands \ {p} : AIKeyLess(ps, p, q)

\* The candidate list get_best_provider sorts, for the registry ps left
\* by the reprobe.
AICandidates(ps) ==
    IF HealthFilter(ps) # {} THEN HealthFilter(ps)
    ELSE {p \in AIProviders : ps[p].available}

GetBestProvider ==
    /\ unit = "ai_manager"
    /\ LET reprobed == Reprobe(providers, now)
           after == IF HealthFilter(reprobed) = {}
                    THEN GlobalReset(reprobed) ELSE reprobed
       IN /\ providers' = after
          /\ best' = AIHead(after, AICandidates(reprobed))
    /\ UNCHANGED <<unit, now, has_lib, answer, callers, search_vars, router_vars>>

\* generate_response invokes gemini when it is available (with or without
\* a client) and the others only with a client; a request in flight
\* records its outcome whatever the provider's state has become meanwhile.
CanFail(p) == providers[p].client \/ p = "gemini"

\* _record_failure that disables past the threshold (> for >=).
RecordFailureOnLate(ps, p) ==
    [ps EXCEPT ![p] =
        [@ EXCEPT !.consecutive_failures = @ + 1,
                  !.available =
                      IF ps[p].consecutive_failures + 1 > ps[p].max_errors
                      THEN FALSE ELSE @]]

\* _record_failure, lines 508-513.
RecordFailureOn(ps, p) ==
    [ps EXCEPT ![p] =
        [@ EXCEPT !.consecutive_failures = @ + 1,
                  !.available =
                      IF ps[p].consecutive_failures + 1 >= ps[p].max_errors
                      THEN FALSE ELSE @]]

RecordFailure(p) ==
    /\ unit = "ai_manager"
    /\ CanFail(p)
    /\ providers[p].consecutive_failures < providers[p].max_errors + MaxOvershoot
    /\ providers' = RecordFailureOn(providers, p)
    /\ best' = NoCall
    /\ UNCHANGED <<unit, now, has_lib, answer, callers, search_vars, router_vars>>

RecordSuccessOn(ps, p, t) ==
    [ps EXCEPT ![p] =
        [@ EXCEPT !.consecutive_failures = 0,
                  !.last_success = t,
                  !.available = TRUE]]

RecordSuccess(p) ==
    /\ unit = "ai_manager"
    /\ providers[p].client
    /\ providers' = RecordSuccessOn(providers, p, now)
    /\ best' = NoCall
    /\ UNCHANGED <<unit, now, has_lib, answer, callers, search_vars, router_vars>>

\* reset_provider_errors(provider_name); name = None resets every provider.
ResetProviderErrors(name) ==
    /\ unit = "ai_manager"
    /\ providers' =
         IF name # NoneValue
         THEN [providers EXCEPT ![name] =
                  [@ EXCEPT !.consecutive_failures = 0, !.available = TRUE]]
         ELSE [p \in AIProviders |->
                  [providers[p] EXCEPT
                      !.consecutive_failures = 0,
                      !.available = IF providers[p].client THEN TRUE ELSE @]]
    /\ best' = NoCall
    /\ UNCHANGED <<unit, now, has_lib, answer, callers, search_vars, router_vars>>

\* No call of generate_response has returned.
NoAnswer ==
    [given |-> FALSE, valid |-> FALSE, success |-> FALSE,
     provider |-> NoneValue, invoked |-> <<>>]

\* What a provider does with one request: it returns a text, it returns
\* nothing or a blank text, or it raises (an error or a timeout).
Replies == {"content", "empty", "raises"}

\* A fallback loop that asks for a client alone.
FallbackUsableAnyClient(ps, p) == ps[p].client

\* `provider_info.get('available') and provider_info.get('client')`
FallbackUsable(ps, p) == ps[p].available /\ ps[p].client

\* `if self.providers.get('gemini', {}).get('available')` for gemini, the
\* test of the fallback loop for the others.
Attempted(ps, p) ==
    IF p = "gemini" THEN ps[p].available ELSE FallbackUsable(ps, p)

\* What the attempt on p comes to: without a client the call on None
\* raises; gemini's empty answer is turned into an exception.
Outcome(ps, p, does) ==
    IF ~ps[p].client THEN "raises"
    ELSE IF p = "gemini" /\ does[p] = "empty" THEN "raises"
    ELSE does[p]

\* generate_response from provider i of the order gemini, groq, openai,
\* huggingface on: the registry and the attempts made so far.
RECURSIVE GenerateFrom(_, _, _, _, _)
GenerateFrom(i, ps, does, t, attempts) ==
    IF i > Len(AINames)
    THEN [providers |-> ps, success |-> FALSE, provider |-> NoneValue,
          invoked |-> attempts]
    ELSE LET p == AINames[i]
             out == Outcome(ps, p, does)
             tried == Append(attempts, [provider |-> p, outcome |-> out])
         IN IF ~Attempted(ps, p)
            THEN GenerateFrom(i + 1, ps, does, t, attempts)
            ELSE IF out = "content"
            THEN [providers |-> RecordSuccessOn(ps, p, t), success |-> TRUE,
                  provider |-> p, invoked |-> tried]
            ELSE IF out = "raises"
            THEN GenerateFrom(i + 1, RecordFailureOn(ps, p), does, t, tried)
            ELSE GenerateFrom(i + 1, ps, does, t, tried)

\* generate_response(prompt, ...): an empty prompt is refused; every
\* exception ends in the `success: False` dict of the outer handler.
GenerateResponse(prompt, does) ==
    /\ unit = "ai_manager"
    /\ IF prompt = ""
       THEN /\ answer' = [NoAnswer EXCEPT !.given = TRUE]
            /\ UNCHANGED providers
       ELSE \E gen \in {GenerateFrom(1, providers, does, now, <<>>)} :
               /\ providers' = gen.providers
               /\ answer' = [given |-> TRUE, valid |-> TRUE,
                             success |-> gen.success,
                             provider |-> gen.provider,
                             invoked |-> gen.invoked]
    /\ best' = NoCall
    /\ UNCHANGED <<unit, now, has_lib, callers, search_vars, router_vars>>

\* The clock advances between calls.
Tick ==
    /\ unit = "ai_manager"
    /\ now + TimeStep <= MaxTime
    /\ now' = now + TimeStep
    /\ best' = NoCall
    /\ UNCHANGED <<unit, has_lib, answer, providers, callers, search_vars, router_vars>>

\* No save is followed.
NoPut == [key |-> <<>>, results |-> NoneValue, timestamp |-> NoTime]

\* History of the circuit breaker, kept beside a step of the registry that
\* has set providers'. failed is the provider whose failure the step
\* recorded, None for every other step.
\*   disabled_at[p]: the time available went from True to False, while p
\*                   stays disabled;
\*   streak[p]:      the number of failures recorded one after the other
\*                   since p was healthy with counter 0; -1 once another
\*                   operation touched p in between.
TrackBreaker(failed) ==
    /\ disabled_at' =
         [p \in AIProviders |->
            IF providers'[p].available THEN NoTime
            ELSE IF providers[p].available THEN now
            ELSE disabled_at[p]]
    /\ streak' =
         [p \in AIProviders |->
            IF failed = p
            THEN (IF streak[p] >= 0 THEN streak[p] + 1 ELSE -1)
            ELSE IF providers'[p].available
                    /\ providers'[p].consecutive_failures = 0 THEN 0
            ELSE IF providers'[p] = providers[p] THEN streak[p]
            ELSE -1]
    /\ UNCHANGED <<put_log, tally>>

\* No thread is inside _record_failure or _record_success.
Callers == 1..MaxCallers

IdleCaller == [pc |-> "idle", provider |-> NoneValue, read |-> 0]

NoCallers == [c \in Callers |-> IdleCaller]

NoTally == [p \in AIProviders |-> [failures |-> 0, successes |-> 0]]

InitialHistory ==
    /\ disabled_at = [p \in AIProviders |-> NoTime]
    /\ streak = [p \in AIProviders |-> IF providers[p].available THEN 0 ELSE -1]
    /\ put_log = NoPut
    /\ tally = NoTally

InitAI(maxKeys) ==
    /\ unit = "ai_manager"
    /\ now = 0
    /\ callers = NoCallers
    /\ answer = NoAnswer
    /\ \E keys \in SUBSET AIProviders :
          /\ Cardinality(keys) <= maxKeys
          /\ has_lib = keys \ {"huggingface"}
          /\ providers = InitialProviders(keys)
    /\ best = NoCall
    /\ InitialHistory

\* ------------------------------------------------------------------------
\* ProductionSearchManager (src/src/services/production_search_manager.py)
\* ------------------------------------------------------------------------
SearchNames == <<"exa", "google", "serper", "bing">>

SearchProviders == {SearchNames[i] : i \in 1..Len(SearchNames)}

SearchPriority == [exa |-> 1, google |-> 2, serper |-> 3, bing |-> 4]

SearchMaxErrors == [exa |-> 3, google |-> 3, serper |-> 3, bing |-> 5]

SearchIndex(p) == CHOOSE i \in 1..Len(SearchNames) : SearchNames[i] = p

\* The providers dict after __init__, for the set keys of providers the
\* environment configures; bing is always enabled.
InitialSearchProviders(keys) ==
    [p \in SearchProviders |->
        [enabled |-> p = "bing" \/ p \in keys,
         priority |-> SearchPriority[p],
         error_count |-> 0,
         max_errors |-> SearchMaxErrors[p]]]

\* _is_provider_available with <= for <.
IsProviderAvailableOffByOne(sp, p) ==
    sp[p].enabled /\ sp[p].error_count <= sp[p].max_errors

IsProviderAvailable(sp, p) ==
    sp[p].enabled /\ sp[p].error_count < sp[p].max_errors

\* The sort key (priority, error_count); list.sort is stable.
SearchKeyLess(sp, p, q) ==
    \/ sp[p].priority < sp[q].priority
    \/ /\ sp[p].priority = sp[q].priority
       /\ sp[p].error_count < sp[q].error_count
    \/ /\ sp[p].priority = sp[q].priority
       /\ sp[p].error_count = sp[q].error_count
       /\ SearchIndex(p) < SearchIndex(q)

RECURSIVE SearchSorted(_, _)
SearchSorted(sp, cands) ==
    IF cands = {} THEN <<>>
    ELSE LET h == CHOOSE p \in cands :
                     \A q \in cands \ {p} : SearchKeyLess(sp, p, q)
         IN <<h>> \o SearchSorted(sp, cands \ {h})

ProviderOrder(sp) ==
    SearchSorted(sp, {p \in SearchProviders : IsProviderAvailable(sp, p)})

\* order when the last operation was not _get_provider_order.
NoOrder == <<NoCall>>

GetProviderOrder ==
    /\ unit = "production_search_manager"
    /\ order' = ProviderOrder(search_providers)
    /\ UNCHANGED <<unit, ai_vars, search_providers, cache_vars, router_vars>>

\* search_with_fallback records an error of a provider it called, that is
\* an enabled one; a request in flight records it whatever the count has
\* become meanwhile.
RecordProviderError(p) ==
    /\ unit = "production_search_manager"
    /\ search_providers[p].enabled
    /\ search_providers[p].error_count
          < search_providers[p].max_errors + MaxOvershoot
    /\ search_providers' =
          [search_providers EXCEPT ![p].error_count = @ + 1]
    /\ order' = NoOrder
    /\ UNCHANGED <<unit, ai_vars, cache_vars, router_vars>>

\* ProductionSearchManager.reset_provider_errors(provider_name).
SearchResetProviderErrors(name) ==
    /\ unit = "production_search_manager"
    /\ search_providers' =
          IF name # NoneValue
          THEN [search_providers EXCEPT ![name].error_count = 0]
          ELSE [p \in SearchProviders |->
                   [search_providers[p] EXCEPT !.error_count = 0]]
    /\ order' = NoOrder
    /\ UNCHANGED <<unit, ai_vars, cache_vars, router_vars>>

\* ------------------------------------------------------------------------
\* ProductionSearchManager, the result cache
\* ------------------------------------------------------------------------
\* self.cache_ttl, seconds.
CacheTTL == 3600

\* Strings are sequences of one-character strings.
Space == " "

RECURSIVE StripLeft(_)
StripLeft(s) ==
    IF s # <<>> /\ Head(s) = Space THEN StripLeft(Tail(s)) ELSE s

RECURSIVE StripRight(_)
StripRight(s) ==
    IF s # <<>> /\ s[Len(s)] = Space
    THEN StripRight(SubSeq(s, 1, Len(s) - 1)) ELSE s

\* str.strip()
Strip(s) == StripRight(StripLeft(s))

Digits == <<"0", "1", "2", "3", "4", "5", "6", "7", "8", "9">>

\* str(n) of a natural number, as the f-string formats max_results.
RECURSIVE Str(_)
Str(n) ==
    IF n < 10 THEN <<Digits[n + 1]>>
    ELSE Str(n \div 10) \o <<Digits[(n % 10) + 1]>>

\* hashlib.md5(...).hexdigest(): a digest is told from another by the
\* string digested; collisions of md5 are outside the model.
Md5(s) == <<"md5">> \o s

\* Key data without the separator: f"{query}{max_results}".
KeyDataNoSeparator(query, max_results) == query \o Str(max_results)

\* f"{query}_{max_results}"
KeyData(query, max_results) == query \o <<"_">> \o Str(max_results)

GenerateCacheKey(query, max_results) == Md5(KeyData(query, max_results))

\* The key search_with_fallback looks a request up under: the query is
\* stripped first.
RequestKey(query, max_results) == GenerateCacheKey(Strip(query), max_results)

\* The queries and result counts requests are made with.
Queries == {<<" ">>, <<"a">>, <<" ", "a", " ">>, <<"a", "1">>}

ResultCounts == {1, 11}

\* Validated result lists a provider may produce (non-empty lists).
Results == {"r1", "r2"}

\* The empty list search_with_fallback returns when it has no result.
EmptyList == "[]"

\* What a provider does with one request: it returns a result list that
\* survives validation, returns nothing that does (no results, or none
\* valid), or raises.
ProviderOutcomes == Results \cup {"nothing", "raises"}

\* The keys requests lead to.
CacheKeys ==
    {RequestKey(q, n) :
        q \in {r \in Queries : Strip(r) # <<>>}, n \in ResultCounts}

NoKey == <<>>

NoOp ==
    [op |-> "none", key |-> NoKey, query |-> <<>>, max_results |-> 0,
     value |-> NoneValue, result |-> NoneValue, called |-> <<>>,
     raised |-> <<>>, expired |-> FALSE]

\* The freshness test with its operands exchanged.
FreshSwapped(entry, t) == entry.timestamp - t < CacheTTL

\* `time.time() - cache_data['timestamp'] < self.cache_ttl`
Fresh(entry, t) == t - entry.timestamp < CacheTTL

\* What _get_from_cache returns for key k at time t; None is a miss.
GetResult(c, k, t) ==
    IF k \in DOMAIN c /\ Fresh(c[k], t) THEN c[k].results ELSE NoneValue

\* A lookup that leaves the expired entry where it is.
CacheAfterGetKeep(c, k, t) == c

\* The cache _get_from_cache leaves: `del self.cache[cache_key]` for an
\* expired entry.
CacheAfterGet(c, k, t) ==
    IF k \in DOMAIN c /\ ~Fresh(c[k], t)
    THEN [j \in DOMAIN c \ {k} |-> c[j]]
    ELSE c

\* The cache _save_to_cache leaves.
CacheAfterSave(c, k, results, provider, t) ==
    [j \in DOMAIN c \cup {k} |->
        IF j = k
        THEN [results |-> results, timestamp |-> t, provider |-> provider]
        ELSE c[j]]

\* A save adds a key only while the cache has room (bound of the model).
HasRoom(c, k) == k \in DOMAIN c \/ Cardinality(DOMAIN c) < MaxEntries

GetFromCache(k) ==
    /\ unit = "production_search_manager"
    /\ cache' = CacheAfterGet(cache, k, now)
    /\ cache_op' = [NoOp EXCEPT !.op = "get", !.key = k,
                                !.result = GetResult(cache, k, now),
                                !.expired = k \in DOMAIN cache
                                               /\ ~Fresh(cache[k], now)]
    /\ order' = NoOrder
    /\ UNCHANGED <<unit, ai_vars, search_providers, router_vars>>

SaveToCache(k, results, provider) ==
    /\ unit = "production_search_manager"
    /\ HasRoom(cache, k)
    /\ cache' = CacheAfterSave(cache, k, results, provider, now)
    /\ cache_op' = [NoOp EXCEPT !.op = "put", !.key = k, !.value = results]
    /\ order' = NoOrder
    /\ UNCHANGED <<unit, ai_vars, search_providers, router_vars>>

\* What a thread's step leaves alone outside the object it works on.
beside_threads ==
    <<services, service_methods, call, invoked, warned, ret, pipeline_vars,
      active_sessions, request, response>>

\* Thread t enters _get_from_cache(k).
LookupBegin(t, k) ==
    /\ unit = "production_search_manager"
    /\ threads[t].pc = "idle"
    /\ threads' = [threads EXCEPT ![t] =
                      [IdleThread EXCEPT !.op = "get", !.pc = "test", !.key = k]]
    /\ UNCHANGED <<unit, ai_vars, search_vars, beside_threads>>

\* The next statement of thread t in _get_from_cache; no lock is taken.
\* A subscript or a del on a key that is gone raises KeyError, which
\* nothing in _get_from_cache or search_with_fallback catches.
LookupStep(t) ==
    /\ unit = "production_search_manager"
    /\ threads[t].op = "get"
    /\ threads[t].pc # "idle"
    /\ LET k == threads[t].key
           at(pc) == [threads EXCEPT ![t].pc = pc]
           returns(r) == [threads EXCEPT ![t].pc = "idle", ![t].result = r]
       IN CASE threads[t].pc = "test" ->
                  \* `if cache_key in self.cache:`
                  /\ threads' = IF k \in DOMAIN cache
                                 THEN at("load") ELSE returns("miss")
                  /\ UNCHANGED cache
            [] threads[t].pc = "load" ->
                  \* `cache_data = self.cache[cache_key]`
                  /\ threads' = IF k \in DOMAIN cache
                                 THEN [threads EXCEPT ![t].pc = "compare",
                                                      ![t].entry = cache[k]]
                                 ELSE returns("KeyError")
                  /\ UNCHANGED cache
            [] threads[t].pc = "compare" ->
                  \* `if time.time() - cache_data['timestamp'] < self.cache_ttl:`
                  /\ threads' = IF Fresh(threads[t].entry, now)
                                 THEN returns(threads[t].entry.results)
                                 ELSE at("delete")
                  /\ UNCHANGED cache
            [] threads[t].pc = "delete" ->
                  \* `del self.cache[cache_key]`
                  /\ threads' = IF k \in DOMAIN cache
                                 THEN returns("miss") ELSE returns("KeyError")
                  /\ cache' = [j \in DOMAIN cache \ {k} |-> cache[j]]
    /\ UNCHANGED <<unit, ai_vars, search_providers, order, cache_op,
                   beside_threads>>

\* clear_cache
ClearCache ==
    /\ unit = "production_search_manager"
    /\ cache' = <<>>
    /\ cache_op' = [NoOp EXCEPT !.op = "clear"]
    /\ order' = NoOrder
    /\ UNCHANGED <<unit, ai_vars, search_providers, router_vars>>

\* search_with_fallback, the loop over _get_provider_order() from
\* position i: the registry it leaves, the providers it called, the
\* validated results of the first provider that had some and that provider.
RECURSIVE SearchLoop(_, _, _, _)
SearchLoop(ord, i, sp, outcome) ==
    IF i > Len(ord)
    THEN [providers |-> sp, called |-> <<>>, raised |-> <<>>,
          results |-> EmptyList, provider |-> NoneValue]
    ELSE LET p == ord[i]
         IN IF ~IsProviderAvailable(sp, p)
            THEN SearchLoop(ord, i + 1, sp, outcome)
            ELSE IF outcome[p] \in Results
            THEN [providers |-> sp, called |-> <<p>>, raised |-> <<>>,
                  results |-> outcome[p], provider |-> p]
            ELSE LET after == IF outcome[p] = "raises"
                              THEN [sp EXCEPT ![p].error_count = @ + 1]
                              ELSE sp
                     rest == SearchLoop(ord, i + 1, after, outcome)
                 IN [rest EXCEPT !.called = <<p>> \o @,
                                 !.raised = IF outcome[p] = "raises"
                                            THEN <<p>> \o @ ELSE @]

\* search_with_fallback(query, max_results); outcome says what each
\* provider does with this request.
SearchWithFallback(query, max_results, outcome) ==
    /\ unit = "production_search_manager"
    /\ \E key \in {RequestKey(query, max_results)} :
       \E cached \in {GetResult(cache, key, now)} :
       \E looked \in {CacheAfterGet(cache, key, now)} :
       \E ord \in {ProviderOrder(search_providers)} :
       \E run \in {SearchLoop(ord, 1, search_providers, outcome)} :
          LET asked == [NoOp EXCEPT !.op = "search", !.query = query,
                                    !.max_results = max_results]
          IN IF Strip(query) = <<>>
             THEN /\ cache_op' = [asked EXCEPT !.result = EmptyList]
                  /\ UNCHANGED <<search_providers, cache>>
             ELSE IF cached # NoneValue
             THEN /\ cache_op' = [asked EXCEPT !.key = key, !.result = cached]
                  /\ cache' = looked
                  /\ UNCHANGED search_providers
             ELSE IF run.results = EmptyList
             THEN /\ cache_op' = [asked EXCEPT !.key = key,
                                               !.called = run.called,
                                               !.raised = run.raised,
                                               !.result = EmptyList]
                  /\ cache' = looked
                  /\ search_providers' = run.providers
             ELSE /\ HasRoom(looked, key)
                  /\ cache_op' = [asked EXCEPT !.key = key,
                                               !.called = run.called,
                                               !.raised = run.raised,
                                               !.value = run.results,
                                               !.result = run.results]
                  /\ cache' = CacheAfterSave(looked, key, run.results,
                                             run.provider, now)
                  /\ search_providers' = run.providers
    /\ order' = NoOrder
    /\ UNCHANGED <<unit, ai_vars, router_vars>>

\* num_results of comprehensive_search, its default.
ComprehensiveResults == 15

\* The number of valid results in a provider's answer.
ResultSize(res) == IF res = "r1" THEN 1 ELSE IF res = "r2" THEN 5 ELSE 0

\* The sources of comprehensive_search in the order it asks them.
ComprehensiveOrder == <<"exa", "google", "serper", "bing">>

\* The condition under which comprehensive_search asks a source, given the
\* results collected so far: exa always, google below half of num_results,
\* serper below a third, bing with none.
Wanted(p, total, num_results) ==
    CASE p = "exa" -> TRUE
      [] p = "google" -> total < num_results \div 2
      [] p = "serper" -> total < num_results \div 3
      [] OTHER -> total = 0

\* comprehensive_search from source i on: the sources it called, those
\* that raised and the number of results; an exception is appended to
\* errors and nothing else.
RECURSIVE ComprehensiveLoop(_, _, _, _, _)
ComprehensiveLoop(i, sp, outcome, total, num_results) ==
    IF i > Len(ComprehensiveOrder)
    THEN [called |-> <<>>, raised |-> <<>>, total |-> total]
    ELSE LET p == ComprehensiveOrder[i]
         IN IF ~(Wanted(p, total, num_results) /\ IsProviderAvailable(sp, p))
            THEN ComprehensiveLoop(i + 1, sp, outcome, total, num_results)
            ELSE LET rest == ComprehensiveLoop(i + 1, sp, outcome,
                                               total + ResultSize(outcome[p]),
                                               num_results)
                 IN [rest EXCEPT !.called = <<p>> \o @,
                                 !.raised = IF outcome[p] = "raises"
                                            THEN <<p>> \o @ ELSE @]

\* comprehensive_search(query, num_results)
ComprehensiveSearch(query, num_results, outcome) ==
    /\ unit = "production_search_manager"
    /\ \E run \in {ComprehensiveLoop(1, search_providers, outcome, 0, num_results)} :
          cache_op' = [NoOp EXCEPT !.op = "comprehensive", !.query = query,
                                   !.max_results = num_results,
                                   !.called = run.called,
                                   !.raised = run.raised,
                                   !.result = IF run.total > 0
                                              THEN "results" ELSE EmptyList]
    /\ order' = NoOrder
    /\ UNCHANGED <<unit, ai_vars, search_providers, cache, router_vars>>

\* The clock advances between the calls of the search manager.
CacheTick ==
    /\ unit = "production_search_manager"
    /\ now + CacheStep <= MaxCacheTime
    /\ now' = now + CacheStep
    /\ cache_op' = NoOp
    /\ order' = NoOrder
    /\ UNCHANGED <<unit, has_lib, answer, providers, best, callers, search_providers,
                   cache, router_vars>>

IdleCache ==
    /\ cache = <<>>
    /\ cache_op = NoOp

\* The AI registry of a behaviour that exercises another unit.
IdleAI ==
    /\ now = 0
    /\ callers = NoCallers
    /\ answer = NoAnswer
    /\ has_lib = {}
    /\ providers = InitialProviders({})
    /\ best = NoCall
    /\ InitialHistory

IdleSearch ==
    /\ search_providers = InitialSearchProviders({})
    /\ order = NoOrder
    /\ IdleCache

InitSearch ==
    /\ unit = "production_search_manager"
    /\ \E keys \in SUBSET (SearchProviders \ {"bing"}) :
          search_providers = InitialSearchProviders(keys)
    /\ order = NoOrder
    /\ IdleCache
    /\ IdleAI

\* ------------------------------------------------------------------------
\* SuperOrchestrator, the capability router
\* (src/src/services/super_orchestrator.py)
\* ------------------------------------------------------------------------
\* A registered service and one whose import failed.
ServiceNames == {"mental_drivers", "websailor"}

\* Operation names a service may expose or a caller may ask for.
OpNames == {"foo", "bar", "baz"}

\* What an operation does with the arguments of one invocation.
Outcomes == {"truthy", "falsy", "raises"}

\* Every call site passes a literal list of distinct names.
PatternLists ==
    {pl \in UNION {[1..n -> OpNames] : n \in 0..MaxPatterns} :
        \A i, j \in 1..Len(pl) : i # j => pl[i] # pl[j]}

NoRet ==
    [status |-> NoCall, keys |-> {}, service |-> NoneValue,
     available_methods |-> {}, tried_patterns |-> <<>>, producer |-> NoneValue]

\* The truthy result of operation op, returned as it is.
ResultOf(op) == [NoRet EXCEPT !.status = "returned", !.producer = op]

\* {'status': 'service_unavailable', 'error': ...}; the error text names
\* the service.
ServiceUnavailable(s) ==
    [NoRet EXCEPT !.status = "service_unavailable",
                  !.keys = {"status", "error"},
                  !.service = s]

\* {'status': 'method_not_found', 'error': ..., 'available_methods': ...,
\*  'tried_patterns': ...}; the error text names the service.
MethodNotFound(s, table, patterns) ==
    [NoRet EXCEPT !.status = "method_not_found",
                  !.keys = {"status", "error", "available_methods", "tried_patterns"},
                  !.service = s,
                  !.available_methods = table,
                  !.tried_patterns = patterns]

IdleCall ==
    [service |-> NoneValue, patterns |-> <<>>,
     behaviour |-> [o \in OpNames |-> "falsy"], i |-> 1, pc |-> "idle"]

\* A router that looks every pattern up without the membership test.
PresentAny(table, pattern) == TRUE

\* `if pattern in available_methods`
Present(table, pattern) == pattern \in table

\* `if result:` -- the invocation returns the result.
Returns(outcome) == outcome = "truthy"

\* A router that gives up at the first pattern that fails (break).
NextPatternAbort(i, n) == n + 1

\* `continue` / falling out of the if: the loop goes on with the pattern
\* after position i of n.
NextPattern(i, n) == i + 1

\* _safe_call_service_method up to the loop. The outer handler
\* (critical_error) is left by no call site: nothing outside the inner try
\* raises for a str service name and a list of str patterns.
RouterCall(s, patterns, behaviour) ==
    /\ unit = "super_orchestrator"
    /\ call.pc = "idle"
    /\ call' = [service |-> s, patterns |-> patterns, behaviour |-> behaviour,
                i |-> 1, pc |-> IF s \in services THEN "loop" ELSE "done"]
    /\ ret' = IF s \in services THEN NoRet ELSE ServiceUnavailable(s)
    /\ invoked' = <<>>
    /\ warned' = <<>>
    /\ UNCHANGED <<unit, ai_vars, history_vars, search_vars,
                   services, service_methods, pipeline_vars, route_vars>>

\* One iteration of the loop over method_patterns; the call of the
\* operation is a suspension point.
RouterTryPattern ==
    /\ unit = "super_orchestrator"
    /\ call.pc = "loop"
    /\ call.i <= Len(call.patterns)
    /\ LET pattern == call.patterns[call.i]
           table == service_methods[call.service]
           n == Len(call.patterns)
       IN IF ~Present(table, pattern)
          THEN /\ call' = [call EXCEPT !.i = @ + 1]
               /\ UNCHANGED <<invoked, warned, ret>>
          ELSE IF pattern \notin table
          THEN \* available_methods[pattern] raises KeyError inside the try
               /\ warned' = Append(warned, pattern)
               /\ call' = [call EXCEPT !.i = NextPattern(call.i, n)]
               /\ UNCHANGED <<invoked, ret>>
          ELSE /\ invoked' = Append(invoked, pattern)
               /\ IF call.behaviour[pattern] = "raises"
                  THEN /\ warned' = Append(warned, pattern)
                       /\ call' = [call EXCEPT !.i = NextPattern(call.i, n)]
                       /\ UNCHANGED ret
                  ELSE IF Returns(call.behaviour[pattern])
                  THEN /\ ret' = ResultOf(pattern)
                       /\ call' = [call EXCEPT !.pc = "done"]
                       /\ UNCHANGED warned
                  ELSE /\ call' = [call EXCEPT !.i = NextPattern(call.i, n)]
                       /\ UNCHANGED <<warned, ret>>
    /\ UNCHANGED <<unit, ai_vars, history_vars, search_vars,
                   services, service_methods, pipeline_vars, route_vars>>

\* The loop ended without a return.
RouterExhausted ==
    /\ unit = "super_orchestrator"
    /\ call.pc = "loop"
    /\ call.i > Len(call.patterns)
    /\ ret' = MethodNotFound(call.service, service_methods[call.service],
                             call.patterns)
    /\ call' = [call EXCEPT !.pc = "done"]
    /\ UNCHANGED <<unit, ai_vars, history_vars, search_vars,
                   services, service_methods, invoked, warned, pipeline_vars,
                   route_vars>>

\* A router that maps the service again (hot reload) when a call returns.
RouterReturnRemaps ==
    /\ unit = "super_orchestrator"
    /\ call.pc = "done"
    /\ call' = IdleCall
    /\ invoked' = <<>>
    /\ warned' = <<>>
    /\ ret' = NoRet
    /\ service_methods' =
          [s \in DOMAIN service_methods |->
              IF s = call.service THEN OpNames ELSE service_methods[s]]
    /\ UNCHANGED <<unit, ai_vars, history_vars, search_vars,
                   services, pipeline_vars, route_vars>>

\* The caller takes the result; the invocation's locals are gone.
RouterReturn ==
    /\ unit = "super_orchestrator"
    /\ call.pc = "done"
    /\ call' = IdleCall
    /\ invoked' = <<>>
    /\ warned' = <<>>
    /\ ret' = NoRet
    /\ UNCHANGED <<unit, ai_vars, history_vars, search_vars,
                   services, service_methods, pipeline_vars, route_vars>>

\* ------------------------------------------------------------------------
\* SuperOrchestrator, the pipeline executor: values before a run
\* ------------------------------------------------------------------------
NoReport == [status |-> NoneValue, generator |-> NoneValue, fallbacks_used |-> -1]

\* No call of execute_synchronized_analysis has returned.
NoEnvelope ==
    [success |-> FALSE, keys |-> {}, report |-> NoReport,
     stage_results |-> NoneValue, zero_fallbacks_used |-> FALSE,
     total_components_executed |-> 0]

IdleRun == [pc |-> "idle", i |-> 1, session |-> NoneValue]

\* progress_callback=None, the default.
NoCallback == [given |-> FALSE, raises_at |-> 0]

IdleProgress ==
    /\ callback = NoCallback
    /\ progress = <<>>

\* No request has reached the session routes.
NoRequest == [pc |-> "idle", segmento |-> NoneValue, produto |-> NoneValue,
              session |-> NoneValue]

NoResponse == [handler |-> NoneValue, code |-> 0, session |-> NoneValue]

IdleRoutes ==
    /\ threads = NoThreads
    /\ active_sessions = <<>>
    /\ request = NoRequest
    /\ response = NoResponse

\* emergency_reset is not running and has not returned.
NoReset == [pc |-> "idle", returned |-> FALSE]

NoProgress == [session |-> NoneValue, result |-> NoneValue]

\* __init__, lines 111-116: the maps are empty and nothing but the session
\* entries of execution_state is ever put into them.
IdleStore ==
    /\ sync_lock = "free"
    /\ service_status = <<>>
    /\ recursion_depth = <<>>
    /\ reset = NoReset
    /\ observed = NoProgress

IdlePipeline ==
    /\ IdleProgress
    /\ IdleRoutes
    /\ IdleStore
    /\ service_kind = <<>>
    /\ helpers = <<>>
    /\ pipeline = IdleRun
    /\ stage_results = <<>>
    /\ executed = <<>>
    /\ execution_state = <<>>
    /\ envelope = NoEnvelope

IdleRouter ==
    /\ services = {}
    /\ service_methods = <<>>
    /\ call = IdleCall
    /\ invoked = <<>>
    /\ warned = <<>>
    /\ ret = NoRet
    /\ IdlePipeline

\* _initialize_services and _map_service_methods: the services whose
\* import succeeded, each with the table of its public callables.
InitRouter ==
    /\ unit = "super_orchestrator"
    /\ services \in SUBSET ServiceNames
    /\ service_methods \in [services -> SUBSET OpNames]
    /\ call = IdleCall
    /\ invoked = <<>>
    /\ warned = <<>>
    /\ ret = NoRet
    /\ IdlePipeline
    /\ IdleAI
    /\ IdleSearch

RouterInvoke ==
    /\ call.pc = "idle"
    /\ \E s \in ServiceNames, patterns \in PatternLists,
          behaviour \in [OpNames -> Outcomes] :
             RouterCall(s, patterns, behaviour)

NextRouter ==
    \/ RouterInvoke
    \/ RouterTryPattern
    \/ RouterExhausted
    \/ RouterReturn

SpecRouter == InitRouter /\ [][NextRouter]_vars

\* ------------------------------------------------------------------------
\* SuperOrchestrator, the pipeline executor
\* (execute_synchronized_analysis, _execute_async_analysis and the stage
\* functions _execute_real_*_async)
\* ------------------------------------------------------------------------
\* The twelve domain stages in the order _execute_async_analysis awaits
\* them, named by their keys in complete_analysis_data.
StageNames ==
    <<"pesquisa_web_massiva", "analise_redes_sociais",
      "avatar_ultra_detalhado", "drivers_mentais_customizados",
      "provas_visuais_arsenal", "sistema_anti_objecao",
      "pre_pitch_invisivel", "predicoes_futuro_detalhadas",
      "analise_concorrencia", "insights_exclusivos",
      "palavras_chave_estrategicas", "funil_vendas_otimizado">>

Stages == {StageNames[i] : i \in 1..Len(StageNames)}

\* The services _initialize_services registers when their import succeeded.
PipelineServices ==
    {"ai_manager", "content_extractor", "mental_drivers", "visual_proofs",
     "anti_objection", "pre_pitch", "future_prediction", "supadata",
     "websailor", "enhanced_report"}

\* Module-level helpers used outside the router; None when their import
\* failed.
HelperNames == {"enhanced_search_coordinator", "enhanced_mcp_fallback_manager"}

SessionIds == {"s1"}

\* What _safe_call_service_method returns for the calls made on a service
\* during a run: an operation's own result - a dict with status 'success'
\* (and data), a dict with status 'error', a truthy value that is no dict -
\* or the method_not_found object when no operation matched or every one
\* raised or returned nothing.
ReturnKinds == {"success", "error", "non_dict", "method_not_found"}

\* A service whose import failed is not in self.services.
Missing == "missing"

\* A helper returns results, is None, returns nothing or raises.
HelperStates == {"results", "none", "nothing", "raises"}

\* A stage result: its 'status' entry ("absent" when the value has none)
\* and where the value comes from: an operation's result returned as it
\* is ("service"), a helper's results ("helper"), the router's failure
\* object ("router"), a payload the stage function builds itself
\* ("synthesized") or its except clause ("exception").
Res(status, origin) == [status |-> status, origin |-> origin]

\* The value the stage function's body raised instead of returning.
Raised == Res("raised", "exception")

StatusOfKind(kind) == IF kind = "non_dict" THEN "absent" ELSE kind

Registered(s) == s \in services

\* _execute_real_web_search_async, lines 411-444.
WebSearchBody ==
    IF Registered("websailor") /\ service_kind["websailor"] = "non_dict"
    THEN Raised
    ELSE IF Registered("websailor") /\ service_kind["websailor"] = "success"
    THEN Res("success", "service")
    ELSE IF helpers["enhanced_search_coordinator"] = "results"
    THEN Res("success", "helper")
    ELSE Res("fallback", "synthesized")

\* _execute_real_social_analysis_async, lines 451-501; a result of kind
\* success is one with total_results > 0.
SocialBody ==
    IF Registered("supadata") /\ service_kind["supadata"] = "non_dict"
    THEN Raised
    ELSE IF Registered("supadata") /\ service_kind["supadata"] = "success"
    THEN Res("success", "service")
    ELSE IF helpers["enhanced_mcp_fallback_manager"] = "raises"
    THEN Raised
    ELSE IF helpers["enhanced_mcp_fallback_manager"] = "results"
    THEN Res("success", "helper")
    ELSE Res("limited", "synthesized")

\* Avatar, competition, insights, keywords and sales funnel: the services
\* of tried are called in turn, a result with status 'success' is returned
\* as it is, anything else is replaced by a basic payload with status
\* 'success'. broken: building the basic payload raises.
RECURSIVE BasicBody(_, _)
BasicBody(tried, broken) ==
    IF tried = <<>>
    THEN (IF broken THEN Raised ELSE Res("success", "synthesized"))
    ELSE IF ~Registered(Head(tried)) THEN BasicBody(Tail(tried), broken)
    ELSE IF service_kind[Head(tried)] = "non_dict" THEN Raised
    ELSE IF service_kind[Head(tried)] = "success" THEN Res("success", "service")
    ELSE BasicBody(Tail(tried), broken)

\* _execute_real_mental_drivers_async, lines 543-567:
\* `return drivers_system or {...}` and the router's return is never falsy.
DriversBody ==
    IF ~Registered("mental_drivers") THEN Res("fallback", "synthesized")
    ELSE Res(StatusOfKind(service_kind["mental_drivers"]),
             IF service_kind["mental_drivers"] = "method_not_found"
             THEN "router" ELSE "service")

\* Visual proofs, anti-objection, pre-pitch and predictions: without the
\* service, or when the router returns method_not_found, the stage's own
\* fallback payload; any other dict is returned as it is.
ManualBody(s) ==
    IF ~Registered(s) THEN Res("fallback", "synthesized")
    ELSE IF service_kind[s] = "non_dict" THEN Raised
    ELSE IF service_kind[s] = "method_not_found" THEN Res("fallback", "synthesized")
    ELSE Res(service_kind[s], "service")

\* The result of mental drivers is no dict: drivers_data.get raises.
DriversNoDict(st) ==
    /\ "drivers_mentais_customizados" \in DOMAIN st
    /\ st["drivers_mentais_customizados"].status = "absent"

\* What the body of a stage function returns or raises, given the results
\* st of the stages before it.
StageBody(stage, st) ==
    CASE stage = "pesquisa_web_massiva" -> WebSearchBody
      [] stage = "analise_redes_sociais" -> SocialBody
      [] stage = "avatar_ultra_detalhado" -> BasicBody(<<"ai_manager">>, FALSE)
      [] stage = "drivers_mentais_customizados" -> DriversBody
      [] stage = "provas_visuais_arsenal" -> ManualBody("visual_proofs")
      [] stage = "sistema_anti_objecao" -> ManualBody("anti_objection")
      [] stage = "pre_pitch_invisivel" -> ManualBody("pre_pitch")
      [] stage = "predicoes_futuro_detalhadas" -> ManualBody("future_prediction")
      [] stage = "analise_concorrencia" -> BasicBody(<<"ai_manager">>, FALSE)
      [] stage = "insights_exclusivos" -> BasicBody(<<"content_extractor">>, FALSE)
      [] stage = "palavras_chave_estrategicas" ->
            BasicBody(<<"ai_manager", "content_extractor">>, FALSE)
      [] stage = "funil_vendas_otimizado" ->
            BasicBody(<<"ai_manager">>, DriversNoDict(st))

\* A pipeline whose visual proofs stage has no except clause.
CaughtButVisualProofs(stage) == stage # "provas_visuais_arsenal"

\* Every stage function wraps its body in try / except Exception.
Caught(stage) == TRUE

\* The stage result an except clause returns.
ErrorResult == Res("error", "exception")

\* The dict execute_synchronized_analysis returns without a run (no data)
\* or when an exception reaches it: success, session_id, error,
\* emergency_mode.
FailureEnvelope ==
    [NoEnvelope EXCEPT !.keys = {"success", "session_id", "error",
                                 "emergency_mode"}]

\* The dict _execute_async_analysis returns, lines 394-407; data_validation
\* is written as literals.
SuccessEnvelope(report) ==
    [success |-> TRUE,
     keys |-> {"success", "session_id", "execution_time",
               "total_components_executed", "report", "data_validation",
               "sync_status"},
     report |-> report,
     stage_results |-> NoneValue,
     zero_fallbacks_used |-> TRUE,
     total_components_executed |-> 12]

\* complete_analysis_data with k set to v.
With(f, k, v) == [j \in DOMAIN f \cup {k} |-> IF j = k THEN v ELSE f[j]]

\* Stages whose results the fallback report reads.
ReportInputs ==
    {"pesquisa_web_massiva", "analise_redes_sociais", "avatar_ultra_detalhado",
     "drivers_mentais_customizados", "provas_visuais_arsenal",
     "sistema_anti_objecao", "funil_vendas_otimizado"}

\* Building the fallback report can raise only on data that came from
\* outside: the payloads the stage functions build are well formed.
CanBreakReport(st) ==
    \E s \in ReportInputs \cap DOMAIN st : st[s].origin \in {"service", "helper"}

\* The report of EnhancedReportGenerator is taken unless it is no dict or
\* has status method_not_found.
ReportFromService ==
    Registered("enhanced_report") /\ service_kind["enhanced_report"] \in {"success", "error"}

\* `sum(1 for data in complete_analysis_data.values() if ... == 'fallback')`
FallbacksUsed(st) == Cardinality({s \in DOMAIN st : st[s].status = "fallback"})

\* _generate_final_report_async; raises: the body of the fallback report
\* raised and the except clause returned the error report.
FinalReport(st, raises) ==
    IF ReportFromService
    THEN [status |-> service_kind["enhanced_report"], generator |-> "enhanced_report",
          fallbacks_used |-> -1]
    ELSE IF raises
    THEN [status |-> "error", generator |-> "error_fallback", fallbacks_used |-> -1]
    ELSE [status |-> "success", generator |-> "enhanced_fallback_v5_fixed",
          fallbacks_used |-> FallbacksUsed(st)]

\* The name under which the consolidation is listed in executed.
FinalStage == "final_report"

\* The index the progress callback gets before the consolidation.
FinalIndex == Len(StageNames) + 1

\* An invocation of the progress callback and a call of a stage function
\* (index 13: the consolidation), as entries of progress.
CallbackEvent(i) == [kind |-> "callback", index |-> i]

StageEvent(i) == [kind |-> "stage", index |-> i]

\* `if progress_callback: progress_callback(i, ...)`: the callback raises
\* when i is the index it fails at, and nothing around the call catches.
CallbackRaises(cb, i) == cb.given /\ cb.raises_at = i

\* progress after the callback of index i.
AfterCallback(log, cb, i) ==
    IF cb.given THEN Append(log, CallbackEvent(i)) ELSE log

\* `with self.sync_lock:` can be entered.
LockFree == sync_lock = "free"

\* execute_synchronized_analysis up to the first stage; data is "empty"
\* for a request without data, cb is the progress_callback argument.
StartRun(session, data, cb) ==
    /\ unit = "super_orchestrator"
    /\ pipeline.pc \in {"idle", "done"}
    /\ stage_results' = <<>>
    /\ executed' = <<>>
    /\ callback' = cb
    /\ progress' = <<>>
    /\ IF data = "empty"
       THEN /\ pipeline' = [pc |-> "done", i |-> 1, session |-> session]
            /\ envelope' = FailureEnvelope
            /\ UNCHANGED <<execution_state, recursion_depth>>
       ELSE /\ LockFree
            /\ pipeline' = [pc |-> "stages", i |-> 1, session |-> session]
            /\ envelope' = NoEnvelope
            /\ recursion_depth' = <<>>
            /\ execution_state' =
                  With(execution_state, session, [status |-> "running"])
    /\ UNCHANGED <<sync_lock, service_status, reset, observed>>
    /\ UNCHANGED <<unit, ai_vars, search_vars, services, service_methods,
                   call, invoked, warned, ret, service_kind, helpers>>

\* One `await self._execute_real_..._async(...)` of _execute_async_analysis.
RunStage ==
    /\ unit = "super_orchestrator"
    /\ pipeline.pc = "stages"
    /\ LET stage == StageNames[pipeline.i]
           body == StageBody(stage, stage_results)
       IN IF CallbackRaises(callback, pipeline.i)
          THEN \* the callback's exception reaches execute_synchronized_analysis
               /\ progress' = AfterCallback(progress, callback, pipeline.i)
               /\ pipeline' = [pipeline EXCEPT !.pc = "done"]
               /\ envelope' = FailureEnvelope
               /\ recursion_depth' = <<>>
               /\ UNCHANGED <<stage_results, executed>>
          ELSE
          /\ executed' = Append(executed, stage)
          /\ progress' = Append(AfterCallback(progress, callback, pipeline.i),
                                StageEvent(pipeline.i))
          /\ IF body = Raised /\ ~Caught(stage)
             THEN \* the exception reaches execute_synchronized_analysis
                  /\ pipeline' = [pipeline EXCEPT !.pc = "done"]
                  /\ envelope' = FailureEnvelope
                  /\ recursion_depth' = <<>>
                  /\ UNCHANGED stage_results
             ELSE /\ stage_results' =
                        With(stage_results, stage,
                             IF body = Raised THEN ErrorResult ELSE body)
                  /\ pipeline' = [pipeline EXCEPT
                               !.i = @ + 1,
                               !.pc = IF pipeline.i = Len(StageNames)
                                      THEN "consolidate" ELSE "stages"]
                  /\ UNCHANGED <<envelope, recursion_depth>>
    /\ UNCHANGED <<unit, ai_vars, search_vars, services, service_methods,
                   call, invoked, warned, ret, service_kind, helpers,
                   execution_state, callback, route_vars, sync_lock,
                   service_status, reset, observed>>

\* _generate_final_report_async and the end of _execute_async_analysis.
Consolidate ==
    /\ unit = "super_orchestrator"
    /\ pipeline.pc = "consolidate"
    /\ LockFree
    /\ pipeline' = [pipeline EXCEPT !.pc = "done"]
    /\ IF CallbackRaises(callback, FinalIndex)
       THEN \* the callback's exception reaches execute_synchronized_analysis
            /\ progress' = AfterCallback(progress, callback, FinalIndex)
            /\ envelope' = FailureEnvelope
            /\ recursion_depth' = <<>>
            /\ UNCHANGED <<executed, execution_state>>
       ELSE /\ progress' = Append(AfterCallback(progress, callback, FinalIndex),
                                  StageEvent(FinalIndex))
            /\ executed' = Append(executed, FinalStage)
            /\ IF pipeline.session \in DOMAIN execution_state
               THEN /\ \E raises \in BOOLEAN :
                        /\ raises => (~ReportFromService
                                         /\ CanBreakReport(stage_results))
                        /\ envelope' =
                              SuccessEnvelope(FinalReport(stage_results, raises))
                    /\ execution_state' =
                          [execution_state EXCEPT
                             ![pipeline.session].status = "completed"]
                    /\ UNCHANGED recursion_depth
               ELSE \* the session was reset during the run: KeyError at line 389
                    /\ envelope' = FailureEnvelope
                    /\ recursion_depth' = <<>>
                    /\ UNCHANGED execution_state
    /\ UNCHANGED <<unit, ai_vars, search_vars, services, service_methods,
                   call, invoked, warned, ret, service_kind, helpers,
                   stage_results, callback, route_vars, sync_lock,
                   service_status, reset, observed>>

\* A run's environment: at most MaxFaults of the services and helpers do
\* anything but return a successful result.
InitPipeline ==
    /\ unit = "super_orchestrator"
    /\ \E F \in SUBSET PipelineServices, H \in SUBSET HelperNames :
          /\ Cardinality(F) + Cardinality(H) <= MaxFaults
          /\ \E fb \in [F -> (ReturnKinds \ {"success"}) \cup {Missing}],
                fh \in [H -> HelperStates \ {"results"}] :
                /\ service_kind = [s \in PipelineServices |->
                                   IF s \in F THEN fb[s] ELSE "success"]
                /\ helpers = [h \in HelperNames |->
                                 IF h \in H THEN fh[h] ELSE "results"]
    /\ services = {s \in PipelineServices : service_kind[s] # Missing}
    /\ service_methods = [s \in services |-> {}]
    /\ call = IdleCall
    /\ invoked = <<>>
    /\ warned = <<>>
    /\ ret = NoRet
    /\ pipeline = IdleRun
    /\ stage_results = <<>>
    /\ executed = <<>>
    /\ execution_state = <<>>
    /\ envelope = NoEnvelope
    /\ IdleProgress
    /\ IdleRoutes
    /\ IdleStore
    /\ IdleAI
    /\ IdleSearch

StartAnalysis ==
    \E session \in SessionIds, data \in {"empty", "given"} :
       StartRun(session, data, NoCallback)

NextPipeline ==
    \/ StartAnalysis /\ UNCHANGED <<history_vars, route_vars>>
    \/ RunStage /\ UNCHANGED history_vars
    \/ Consolidate /\ UNCHANGED history_vars

SpecPipeline == InitPipeline /\ [][NextPipeline]_vars

\* ------------------------------------------------------------------------
\* Specification of the runs that report their progress
\* ------------------------------------------------------------------------
\* The callables handed in as progress_callback: one that returns at every
\* index (raises_at 0) and those that raise at one index.
Callbacks == {[given |-> TRUE, raises_at |-> k] : k \in 0..FinalIndex}

Faulty ==
    {s \in PipelineServices : service_kind[s] # "success"}
       \cup {h \in HelperNames : helpers[h] # "results"}

InitProgress ==
    /\ InitPipeline
    /\ Cardinality(Faulty) <= MaxWatchedFaults

StartWatched ==
    \E session \in SessionIds, cb \in Callbacks : StartRun(session, "given", cb)

NextProgress ==
    \/ StartWatched /\ UNCHANGED <<history_vars, route_vars>>
    \/ RunStage /\ UNCHANGED history_vars
    \/ Consolidate /\ UNCHANGED history_vars

SpecProgress == InitProgress /\ [][NextProgress]_vars

\* ------------------------------------------------------------------------
\* The session routes (src/src/routes/analysis.py): /analyze,
\* /sessions/<id>/pause and /sessions/<id>/resume
\* ------------------------------------------------------------------------
\* auto_save_manager.iniciar_sessao() returns a new id at each call.
SessionPool == <<"s1", "s2", "s3", "s4">>

RouteSessions == {SessionPool[k] : k \in 1..MaxSessions}

\* The value of a field of the request body: the key is missing, or it is
\* the empty string, a blank string or a word.
Absent == NoneValue

FieldValues == {Absent, "", " ", "fitness"}

\* The JSON body of POST /analyze, with or without the two fields, and a
\* request with no body or an empty one (`not data`).
NoBody == [given |-> FALSE, segmento |-> Absent, produto |-> Absent]

Bodies ==
    [given : {TRUE}, segmento : FieldValues, produto : FieldValues] \cup {NoBody}

\* `not x` of Python for a field value.
Falsy(x) == x \in {Absent, ""}

\* A request that is valid when it has a segmento, whatever its produto.
ValidRequestSegmentOnly(body) == ~Falsy(body.segmento)

\* `if not segmento_negocio or not produto_servico: return ..., 400`
ValidRequest(body) == ~(Falsy(body.segmento) \/ Falsy(body.produto))

\* What send_progress_update does: it returns, or salvar_etapa raises in
\* it at the second index.
RouteCallbacks == {[given |-> TRUE, raises_at |-> k] : k \in {0, 2}}

Reply(handler, code, session) ==
    [handler |-> handler, code |-> code, session |-> session]

\* analyze, from the request to the call of execute_synchronized_analysis.
AnalyzeBegin(body) ==
    /\ UNCHANGED threads
    /\ request.pc # "executing"
    /\ IF ~body.given
       THEN \* `if not data: return ..., 400`
            /\ response' = Reply("analyze", 400, NoneValue)
            /\ UNCHANGED <<active_sessions, request, pipeline, stage_results,
                           executed, execution_state, envelope, callback,
                           progress, store_vars>>
            /\ UNCHANGED <<unit, ai_vars, search_vars, services, service_methods,
                           call, invoked, warned, ret, service_kind, helpers>>
       ELSE /\ Cardinality(DOMAIN active_sessions) < MaxSessions
            /\ LET session == SessionPool[Cardinality(DOMAIN active_sessions) + 1]
               IN /\ active_sessions' = With(active_sessions, session, "running")
                  /\ IF ValidRequest(body)
                     THEN /\ request' = [pc |-> "executing",
                                         segmento |-> body.segmento,
                                         produto |-> body.produto,
                                         session |-> session]
                          /\ UNCHANGED response
                          /\ \E cb \in RouteCallbacks :
                                StartRun(session, "given", cb)
                     ELSE /\ request' = [pc |-> "rejected",
                                         segmento |-> body.segmento,
                                         produto |-> body.produto,
                                         session |-> session]
                          /\ response' = Reply("analyze", 400, session)
                          /\ UNCHANGED <<pipeline, stage_results, executed,
                                         execution_state, envelope, callback,
                                         progress, store_vars>>
                          /\ UNCHANGED <<unit, ai_vars, search_vars, services,
                                         service_methods, call, invoked, warned,
                                         ret, service_kind, helpers>>

\* analyze, after execute_synchronized_analysis has returned.
AnalyzeEnd ==
    /\ UNCHANGED threads
    /\ request.pc = "executing"
    /\ pipeline.pc = "done"
    /\ request' = [request EXCEPT !.pc = "answered"]
    /\ IF envelope.success
       THEN /\ active_sessions' =
                  [active_sessions EXCEPT ![request.session] = "completed"]
            /\ response' = Reply("analyze", 200, request.session)
       ELSE /\ response' = Reply("analyze", 500, request.session)
            /\ UNCHANGED active_sessions
    /\ UNCHANGED <<unit, ai_vars, search_vars, services, service_methods,
                   call, invoked, warned, ret, pipeline_vars>>

\* pause_session
PauseSession(session) ==
    /\ UNCHANGED threads
    /\ IF session \notin DOMAIN active_sessions
       THEN /\ response' = Reply("pause", 404, session)
            /\ UNCHANGED active_sessions
       ELSE IF active_sessions[session] # "running"
       THEN /\ response' = Reply("pause", 400, session)
            /\ UNCHANGED active_sessions
       ELSE /\ active_sessions' = [active_sessions EXCEPT ![session] = "paused"]
            /\ response' = Reply("pause", 200, session)
    /\ UNCHANGED <<unit, ai_vars, search_vars, services, service_methods,
                   call, invoked, warned, ret, pipeline_vars, request>>

\* resume_session
ResumeSession(session) ==
    /\ UNCHANGED threads
    /\ IF session \notin DOMAIN active_sessions
       THEN /\ response' = Reply("resume", 404, session)
            /\ UNCHANGED active_sessions
       ELSE IF active_sessions[session] # "paused"
       THEN /\ response' = Reply("resume", 400, session)
            /\ UNCHANGED active_sessions
       ELSE /\ active_sessions' = [active_sessions EXCEPT ![session] = "running"]
            /\ response' = Reply("resume", 200, session)
    /\ UNCHANGED <<unit, ai_vars, search_vars, services, service_methods,
                   call, invoked, warned, ret, pipeline_vars, request>>

\* Every service is registered and returns a successful result.
InitRoutes ==
    /\ InitPipeline
    /\ Faulty = {}

Analyze == \E body \in Bodies : AnalyzeBegin(body)

Pause == \E session \in RouteSessions : PauseSession(session)

Resume == \E session \in RouteSessions : ResumeSession(session)

NextRoutes ==
    \/ Analyze /\ UNCHANGED history_vars
    \/ RunStage /\ UNCHANGED history_vars
    \/ Consolidate /\ UNCHANGED history_vars
    \/ AnalyzeEnd /\ UNCHANGED history_vars
    \/ Pause /\ UNCHANGED history_vars
    \/ Resume /\ UNCHANGED history_vars

SpecRoutes == InitRoutes /\ [][NextRoutes]_vars

\* ------------------------------------------------------------------------
\* SuperOrchestrator, the session store: get_session_progress,
\* reset_session and emergency_reset beside a run
\* ------------------------------------------------------------------------
\* A lock that is never held.
LockFreeAlways == TRUE

\* The other operations enter `with self.sync_lock:` like the run does.
StoreLockFree == LockFree

\* get_session_progress(session), one critical section.
GetSessionProgress(session) ==
    /\ unit = "super_orchestrator"
    /\ StoreLockFree
    /\ observed' =
          [session |-> session,
           result |-> IF session \notin DOMAIN execution_state THEN NoneValue
                      ELSE IF execution_state[session].status
                                 \in {"running", "completed"}
                      THEN execution_state[session].status
                      ELSE NoneValue]
    /\ UNCHANGED <<unit, ai_vars, search_vars, services, service_methods,
                   call, invoked, warned, ret, route_vars, service_kind,
                   helpers, pipeline, stage_results, executed, execution_state,
                   envelope, progress_vars, sync_lock, service_status,
                   recursion_depth, reset>>

\* The characters of an identifier (str(key), session_id).
Chars(id) ==
    CASE id = "s1" -> <<"s", "1">>
      [] id = "s2" -> <<"s", "2">>
      [] id = "s3" -> <<"s", "3">>
      [] id = "s4" -> <<"s", "4">>
      [] id = "s12" -> <<"s", "1", "2">>
      [] OTHER -> <<id>>

\* `a in b` of Python for two strings: a is a substring of b.
Within(a, b) ==
    \E k \in 0..Len(b) - Len(a) : \A j \in 1..Len(a) : b[k + j] = a[j]

\* A reset that removes the keys equal to the session id.
ContainsExactly(key, session) == key = session

\* `session_id in str(key)`
Contains(key, session) == Within(Chars(session), Chars(key))

\* _global_recursion_depth without the keys that contain the session id.
WithoutSession(depth, session) ==
    [k \in {j \in DOMAIN depth : ~Contains(j, session)} |-> depth[k]]

\* reset_session(session), one critical section.
ResetSession(session) ==
    /\ unit = "super_orchestrator"
    /\ StoreLockFree
    /\ execution_state' =
          [k \in DOMAIN execution_state \ {session} |-> execution_state[k]]
    /\ recursion_depth' = WithoutSession(recursion_depth, session)
    /\ UNCHANGED <<unit, ai_vars, search_vars, services, service_methods,
                   call, invoked, warned, ret, route_vars, service_kind,
                   helpers, pipeline, stage_results, executed, envelope,
                   progress_vars, sync_lock, service_status, reset, observed>>

\* emergency_reset, statement by statement: the lock is taken, the three
\* maps are cleared one after the other, the lock is released.
EmergencyResetEnter ==
    /\ unit = "super_orchestrator"
    /\ reset.pc = "idle"
    /\ StoreLockFree
    /\ sync_lock' = "emergency_reset"
    /\ reset' = [pc |-> "execution_state", returned |-> FALSE]
    /\ UNCHANGED <<unit, ai_vars, search_vars, services, service_methods,
                   call, invoked, warned, ret, route_vars, service_kind,
                   helpers, pipeline, stage_results, executed, execution_state,
                   envelope, progress_vars, service_status, recursion_depth,
                   observed>>

EmergencyResetClear ==
    /\ unit = "super_orchestrator"
    /\ reset.pc \in {"execution_state", "service_status", "recursion_depth"}
    /\ CASE reset.pc = "execution_state" ->
               /\ execution_state' = <<>>
               /\ reset' = [reset EXCEPT !.pc = "service_status"]
               /\ UNCHANGED <<service_status, recursion_depth, sync_lock>>
         [] reset.pc = "service_status" ->
               /\ service_status' = <<>>
               /\ reset' = [reset EXCEPT !.pc = "recursion_depth"]
               /\ UNCHANGED <<execution_state, recursion_depth, sync_lock>>
         [] reset.pc = "recursion_depth" ->
               /\ recursion_depth' = <<>>
               /\ sync_lock' = "free"
               /\ reset' = [pc |-> "idle", returned |-> TRUE]
               /\ UNCHANGED <<execution_state, service_status>>
    /\ UNCHANGED <<unit, ai_vars, search_vars, services, service_methods,
                   call, invoked, warned, ret, route_vars, service_kind,
                   helpers, pipeline, stage_results, executed, envelope,
                   progress_vars, observed>>

\* Every service is registered and returns a successful result.
InitStore ==
    /\ InitPipeline
    /\ Faulty = {}

StartStored ==
    \E session \in RouteSessions : StartRun(session, "given", NoCallback)

ReadProgress == \E session \in RouteSessions : GetSessionProgress(session)

ResetOne == \E session \in RouteSessions : ResetSession(session)

NextStore ==
    \/ StartStored /\ UNCHANGED <<history_vars, route_vars>>
    \/ RunStage /\ UNCHANGED history_vars
    \/ Consolidate /\ UNCHANGED history_vars
    \/ ReadProgress /\ UNCHANGED history_vars
    \/ ResetOne /\ UNCHANGED history_vars
    \/ EmergencyResetEnter /\ UNCHANGED history_vars
    \/ EmergencyResetClear /\ UNCHANGED history_vars

SpecStore == InitStore /\ [][NextStore]_vars

\* ------------------------------------------------------------------------
\* SuperOrchestrator used by several request threads: runs, resets and
\* the debug route statement by statement, with the lock each takes
\* ------------------------------------------------------------------------
\* What a thread's step on the session store leaves alone.
beside_sessions ==
    <<services, service_methods, call, invoked, warned, ret, service_kind,
      helpers, pipeline, stage_results, executed, envelope, progress_vars,
      service_status, reset, observed, active_sessions, request, response>>

\* The session identifiers the callers supply.
ThreadSessions == {"s1", "s12"}

\* A `with self.sync_lock:` block that keeps the lock when it is left.
WithExitKeeps(t) == t

\* Leaving a `with self.sync_lock:` block releases the lock.
WithExit(t) == "free"

\* Thread t enters execute_synchronized_analysis(data, session).
RunBegin(t, session) ==
    /\ unit = "super_orchestrator"
    /\ threads[t].pc = "idle"
    /\ \A u \in Threads : threads[u].op = "run" => threads[u].session # session
    /\ threads' = [threads EXCEPT ![t] =
                      [IdleThread EXCEPT !.op = "run", !.pc = "clear",
                                         !.session = session]]
    /\ UNCHANGED <<unit, ai_vars, search_vars, beside_sessions,
                   execution_state, recursion_depth, sync_lock>>

\* The next statement of thread t in _execute_async_analysis; raises
\* tells whether the stage it is in ends in an exception that reaches
\* execute_synchronized_analysis.
RunStep(t, raises) ==
    /\ unit = "super_orchestrator"
    /\ threads[t].op = "run"
    /\ threads[t].pc \notin {"idle", "done"}
    /\ LET session == threads[t].session
           at(pc) == [threads EXCEPT ![t].pc = pc]
       IN CASE threads[t].pc = "clear" ->
                  \* line 276, before the lock is taken
                  /\ ~raises
                  /\ recursion_depth' = <<>>
                  /\ threads' = at("enter_insert")
                  /\ UNCHANGED <<execution_state, sync_lock>>
            [] threads[t].pc = "enter_insert" ->
                  \* line 278
                  /\ ~raises
                  /\ LockFree
                  /\ sync_lock' = t
                  /\ threads' = at("insert")
                  /\ UNCHANGED <<execution_state, recursion_depth>>
            [] threads[t].pc = "insert" ->
                  \* lines 279-286
                  /\ ~raises
                  /\ execution_state' =
                        With(execution_state, session, [status |-> "running"])
                  /\ sync_lock' = WithExit(t)
                  /\ threads' = [threads EXCEPT ![t].pc = "stages", ![t].i = 1]
                  /\ UNCHANGED recursion_depth
            [] threads[t].pc = "stages" ->
                  \* the stage the thread is in returns or raises
                  /\ threads' =
                        IF raises THEN at("except")
                        ELSE IF threads[t].i = Len(StageNames)
                        THEN at("enter_status")
                        ELSE [threads EXCEPT ![t].i = @ + 1]
                  /\ UNCHANGED <<execution_state, recursion_depth, sync_lock>>
            [] threads[t].pc = "enter_status" ->
                  \* line 388, after the final report
                  /\ ~raises
                  /\ LockFree
                  /\ sync_lock' = t
                  /\ threads' = at("status")
                  /\ UNCHANGED <<execution_state, recursion_depth>>
            [] threads[t].pc = "status" ->
                  \* lines 389-390; KeyError when the entry is gone
                  /\ ~raises
                  /\ sync_lock' = WithExit(t)
                  /\ IF session \in DOMAIN execution_state
                     THEN /\ execution_state' =
                                [execution_state EXCEPT
                                    ![session].status = "completed"]
                          /\ threads' = [threads EXCEPT ![t].pc = "done",
                                                         ![t].result = "success"]
                     ELSE /\ threads' = at("except")
                          /\ UNCHANGED execution_state
                  /\ UNCHANGED recursion_depth
            [] threads[t].pc = "except" ->
                  \* lines 250-262, no lock
                  /\ ~raises
                  /\ recursion_depth' = <<>>
                  /\ threads' = [threads EXCEPT ![t].pc = "done",
                                                 ![t].result = "failure"]
                  /\ UNCHANGED <<execution_state, sync_lock>>
    /\ UNCHANGED <<unit, ai_vars, search_vars, beside_sessions>>

\* The caller has the envelope; the thread is free for another request.
RunEnd(t) ==
    /\ unit = "super_orchestrator"
    /\ threads[t].pc = "done"
    /\ threads' = [threads EXCEPT ![t] = IdleThread]
    /\ UNCHANGED <<unit, ai_vars, search_vars, beside_sessions,
                   execution_state, recursion_depth, sync_lock>>

\* Thread t enters reset_session(session).
ResetBegin(t, session) ==
    /\ unit = "super_orchestrator"
    /\ threads[t].pc = "idle"
    /\ threads' = [threads EXCEPT ![t] =
                      [IdleThread EXCEPT !.op = "reset_session", !.pc = "enter",
                                         !.session = session]]
    /\ UNCHANGED <<unit, ai_vars, search_vars, beside_sessions,
                   execution_state, recursion_depth, sync_lock>>

\* The next statement of thread t in reset_session.
ResetStep(t) ==
    /\ unit = "super_orchestrator"
    /\ threads[t].op = "reset_session"
    /\ CASE threads[t].pc = "enter" ->
                \* line 1007
                /\ LockFree
                /\ sync_lock' = t
                /\ threads' = [threads EXCEPT ![t].pc = "remove"]
                /\ UNCHANGED <<execution_state, recursion_depth>>
          [] threads[t].pc = "remove" ->
                \* lines 1008-1015
                /\ execution_state' =
                      [k \in DOMAIN execution_state \ {threads[t].session} |->
                          execution_state[k]]
                /\ recursion_depth' =
                      WithoutSession(recursion_depth, threads[t].session)
                /\ sync_lock' = WithExit(t)
                /\ threads' = [threads EXCEPT ![t] =
                                  [IdleThread EXCEPT !.result = "reset"]]
    /\ UNCHANGED <<unit, ai_vars, search_vars, beside_sessions>>

\* POST /debug/clear-sessions: execution_state.clear() with no lock.
ClearDebugSessions ==
    /\ unit = "super_orchestrator"
    /\ execution_state # <<>>
    /\ execution_state' = <<>>
    /\ UNCHANGED <<unit, ai_vars, search_vars, beside_sessions, threads,
                   recursion_depth, sync_lock>>

\* A service called by a stage of the run records its call depth under a
\* key made of the session identifier. The services that write the map
\* are not in src/; this step follows the recursionDepth map of a
\* session in the specification.
GuardEnter(t) ==
    /\ unit = "super_orchestrator"
    /\ threads[t].op = "run"
    /\ threads[t].pc = "stages"
    /\ threads[t].session \notin DOMAIN recursion_depth
    /\ recursion_depth' = With(recursion_depth, threads[t].session, 1)
    /\ UNCHANGED <<unit, ai_vars, search_vars, beside_sessions, threads,
                   execution_state, sync_lock>>

\* Every service is registered; no run is followed stage by stage.
InitSessions == InitStore

RunStart == \E t \in Threads, session \in ThreadSessions : RunBegin(t, session)

RunNext == \E t \in Threads, raises \in BOOLEAN : RunStep(t, raises)

RunReturn == \E t \in Threads : RunEnd(t)

ResetStart ==
    \E t \in Threads, session \in ThreadSessions : ResetBegin(t, session)

ResetNext == \E t \in Threads : ResetStep(t)

ProgressRead == \E session \in ThreadSessions : GetSessionProgress(session)

NextSessions ==
    \/ RunStart /\ UNCHANGED history_vars
    \/ RunNext /\ UNCHANGED history_vars
    \/ RunReturn /\ UNCHANGED history_vars
    \/ ResetStart /\ UNCHANGED history_vars
    \/ ResetNext /\ UNCHANGED history_vars
    \/ ClearDebugSessions /\ UNCHANGED history_vars
    \/ ProgressRead /\ UNCHANGED history_vars
    \/ EmergencyResetEnter /\ UNCHANGED history_vars
    \/ EmergencyResetClear /\ UNCHANGED history_vars

SpecSessions == InitSessions /\ [][NextSessions]_vars

\* The same with the recursion guard of the services in use.
GuardStart == \E t \in Threads : GuardEnter(t)

NextGuards ==
    \/ RunStart /\ UNCHANGED history_vars
    \/ RunNext /\ UNCHANGED history_vars
    \/ RunReturn /\ UNCHANGED history_vars
    \/ GuardStart /\ UNCHANGED history_vars
    \/ ResetStart /\ UNCHANGED history_vars
    \/ ResetNext /\ UNCHANGED history_vars

SpecGuards == InitSessions /\ [][NextGuards]_vars

\* ------------------------------------------------------------------------
\* SuperOrchestrator after construction: router invocations, or runs beside
\* the operations of the session store
\* ------------------------------------------------------------------------
\* The behaviour exercises the router alone: no run's environment is set.
RouterAlone == service_kind = <<>>

InitOrchestrator == InitRouter \/ InitStore

NextOrchestrator ==
    \/ RouterAlone /\ NextRouter
    \/ ~RouterAlone /\ NextStore

SpecOrchestrator == InitOrchestrator /\ [][NextOrchestrator]_vars

\* ------------------------------------------------------------------------
\* Specifications of the provider registries
\* ------------------------------------------------------------------------
AISelect == GetBestProvider

AIFailure == \E p \in AIProviders : RecordFailure(p)

AISuccess == \E p \in AIProviders : RecordSuccess(p)

AIReset == \E name \in AIProviders \cup {NoneValue} : ResetProviderErrors(name)

SearchFailure == \E p \in SearchProviders : RecordProviderError(p)

SearchReset ==
    \E name \in SearchProviders \cup {NoneValue} : SearchResetProviderErrors(name)

InitRegistry ==
    \/ InitAI(MaxKeys) /\ IdleSearch /\ IdleRouter
    \/ InitSearch /\ IdleRouter

\* The operations of the registries other than the operator's resets.
NextUnattended ==
    \/ AISelect /\ UNCHANGED history_vars
    \/ AIFailure /\ UNCHANGED history_vars
    \/ AISuccess /\ UNCHANGED history_vars
    \/ Tick /\ UNCHANGED history_vars
    \/ GetProviderOrder /\ UNCHANGED history_vars
    \/ SearchFailure /\ UNCHANGED history_vars

NextRegistry ==
    \/ AISelect /\ UNCHANGED history_vars
    \/ AIFailure /\ UNCHANGED history_vars
    \/ AISuccess /\ UNCHANGED history_vars
    \/ AIReset /\ UNCHANGED history_vars
    \/ Tick /\ UNCHANGED history_vars
    \/ GetProviderOrder /\ UNCHANGED history_vars
    \/ SearchFailure /\ UNCHANGED history_vars
    \/ SearchReset /\ UNCHANGED history_vars

SpecRegistry == InitRegistry /\ [][NextRegistry]_vars

\* The AI registry with the breaker's history followed.
InitBreaker == InitAI(MaxBreakerKeys) /\ IdleSearch /\ IdleRouter

NextBreaker ==
    \/ AISelect /\ TrackBreaker(NoneValue)
    \/ \E p \in AIProviders : RecordFailure(p) /\ TrackBreaker(p)
    \/ AISuccess /\ TrackBreaker(NoneValue)
    \/ AIReset /\ TrackBreaker(NoneValue)
    \/ Tick /\ TrackBreaker(NoneValue)

SpecBreaker == InitBreaker /\ [][NextBreaker]_vars

\* The registries left to themselves: no reset by an operator, time keeps
\* advancing and selection keeps being requested.
FairRegistry ==
    /\ InitRegistry
    /\ [][NextUnattended]_vars
    /\ WF_vars(Tick /\ UNCHANGED history_vars)
    /\ WF_vars(AISelect /\ UNCHANGED history_vars)
    /\ WF_vars(GetProviderOrder /\ UNCHANGED history_vars)

\* The generation path beside the operator's resets and time.
InitGenerate == InitAI(MaxBreakerKeys) /\ IdleSearch /\ IdleRouter

\* What the providers do with a request; one without a client is never
\* asked, whatever it would do.
Doings ==
    {does \in [AIProviders -> Replies] :
        \A p \in AIProviders : ~providers[p].client => does[p] = "raises"}

Generate ==
    \E prompt \in {"", "text"}, does \in Doings :
       GenerateResponse(prompt, does)

NextGenerate ==
    \/ Generate /\ UNCHANGED history_vars
    \/ AIReset /\ UNCHANGED history_vars
    \/ Tick /\ UNCHANGED history_vars

SpecGenerate == InitGenerate /\ [][NextGenerate]_vars

\* Requests made one after the other, with more providers configured.
InitRequests == InitAI(MaxGenerateKeys) /\ IdleSearch /\ IdleRouter

NextRequests ==
    \/ Generate /\ UNCHANGED history_vars
    \/ AIReset /\ UNCHANGED history_vars

SpecRequests == InitRequests /\ [][NextRequests]_vars

\* ------------------------------------------------------------------------
\* AIManager, _record_failure and _record_success called by several
\* threads: no lock is taken, so the reads and writes of the provider's
\* entries interleave
\* ------------------------------------------------------------------------
\* The value the second half of `provider['consecutive_failures'] += 1`
\* stores: one more than the value its first half read.
StoredCount(ps, c) == callers[c].read + 1

\* Thread c enters _record_failure(p).
BeginFailure(c, p) ==
    /\ unit = "ai_manager"
    /\ callers[c].pc = "idle"
    /\ CanFail(p)
    /\ callers' = [callers EXCEPT ![c] = [pc |-> "load", provider |-> p, read |-> 0]]
    /\ UNCHANGED <<unit, now, has_lib, answer, providers, best, search_vars, router_vars>>

\* Thread c enters _record_success(p).
BeginSuccess(c, p) ==
    /\ unit = "ai_manager"
    /\ callers[c].pc = "idle"
    /\ providers[p].client
    /\ callers' = [callers EXCEPT ![c] = [pc |-> "zero", provider |-> p, read |-> 0]]
    /\ UNCHANGED <<unit, now, has_lib, answer, providers, best, search_vars, router_vars>>

\* The next statement of thread c.
CallerStep(c) ==
    /\ unit = "ai_manager"
    /\ callers[c].pc # "idle"
    /\ LET p == callers[c].provider
           at(pc) == [callers EXCEPT ![c].pc = pc]
       IN CASE callers[c].pc = "load" ->
                  /\ callers' = [callers EXCEPT
                                   ![c].pc = "store",
                                   ![c].read = providers[p].consecutive_failures]
                  /\ UNCHANGED providers
            [] callers[c].pc = "store" ->
                  /\ providers' = [providers EXCEPT
                                     ![p].consecutive_failures = StoredCount(providers, c)]
                  /\ callers' = at("check")
            [] callers[c].pc = "check" ->
                  /\ callers' =
                        IF providers[p].consecutive_failures >= providers[p].max_errors
                        THEN at("disable") ELSE [callers EXCEPT ![c] = IdleCaller]
                  /\ UNCHANGED providers
            [] callers[c].pc = "disable" ->
                  /\ providers' = [providers EXCEPT ![p].available = FALSE]
                  /\ callers' = [callers EXCEPT ![c] = IdleCaller]
            [] callers[c].pc = "zero" ->
                  /\ providers' = [providers EXCEPT
                                     ![p].consecutive_failures = 0,
                                     ![p].last_success = now]
                  /\ callers' = at("enable")
            [] callers[c].pc = "enable" ->
                  /\ providers' = [providers EXCEPT ![p].available = TRUE]
                  /\ callers' = [callers EXCEPT ![c] = IdleCaller]
    /\ UNCHANGED <<unit, now, has_lib, answer, best, search_vars, router_vars>>

\* History of the calls begun.
TrackCalls(p, kind) ==
    /\ tally' = [tally EXCEPT
                   ![p].failures = IF kind = "failure" THEN @ + 1 ELSE @,
                   ![p].successes = IF kind = "success" THEN @ + 1 ELSE @]
    /\ UNCHANGED <<disabled_at, streak, put_log>>

CallsBegun ==
    tally["gemini"].failures + tally["gemini"].successes
       + tally["groq"].failures + tally["groq"].successes
       + tally["openai"].failures + tally["openai"].successes
       + tally["huggingface"].failures + tally["huggingface"].successes

InitRace == InitAI(MaxBreakerKeys) /\ IdleSearch /\ IdleRouter

NextRace ==
    \/ \E c \in Callers, p \in AIProviders :
          /\ CallsBegun < MaxRaceCalls
          /\ BeginFailure(c, p)
          /\ TrackCalls(p, "failure")
    \/ \E c \in Callers, p \in AIProviders :
          /\ CallsBegun < MaxRaceCalls
          /\ BeginSuccess(c, p)
          /\ TrackCalls(p, "success")
    \/ \E c \in Callers : CallerStep(c) /\ UNCHANGED history_vars

SpecRace == InitRace /\ [][NextRace]_vars

\* ------------------------------------------------------------------------
\* Specification of the result cache
\* ------------------------------------------------------------------------
\* No API key in the environment: bing, which needs none, is the one
\* provider enabled.
InitCache ==
    /\ unit = "production_search_manager"
    /\ search_providers = InitialSearchProviders({})
    /\ order = NoOrder
    /\ IdleCache
    /\ IdleAI
    /\ IdleRouter

EnabledProviders == {p \in SearchProviders : search_providers[p].enabled}

SearchRequest ==
    \E query \in Queries, max_results \in ResultCounts,
       outcome \in [EnabledProviders -> ProviderOutcomes] :
          SearchWithFallback(query, max_results, outcome)

CacheLookup == \E k \in CacheKeys : GetFromCache(k)

CacheSave ==
    \E k \in CacheKeys, results \in Results, provider \in EnabledProviders :
       SaveToCache(k, results, provider)

\* History of the saves, kept beside a step that has set cache_op':
\* put_log is one save the behaviour follows until its key is saved again
\* or the cache is cleared; a save under another key is followed instead
\* or not.
TrackPut ==
    /\ put_log' \in
          IF cache_op'.op = "clear" THEN {NoPut}
          ELSE IF cache_op'.op # "put" THEN {put_log}
          ELSE LET saved == [key |-> cache_op'.key,
                             results |-> cache_op'.value,
                             timestamp |-> now]
               IN IF put_log = NoPut \/ put_log.key = saved.key
                  THEN {saved} ELSE {saved, put_log}
    /\ UNCHANGED <<disabled_at, streak, tally>>

\* The operations of the cache, called one by one.
NextCache ==
    \/ CacheLookup /\ TrackPut
    \/ CacheSave /\ TrackPut
    \/ ClearCache /\ TrackPut
    \/ CacheTick /\ TrackPut

SpecCache == InitCache /\ [][NextCache]_vars

\* The two search entry points, for one query, with the API keys the
\* environment configures.
InitFailover ==
    /\ unit = "production_search_manager"
    /\ \E keys \in SUBSET (SearchProviders \ {"bing"}) :
          /\ Cardinality(keys) <= MaxFailoverKeys
          /\ search_providers = InitialSearchProviders(keys)
    /\ order = NoOrder
    /\ IdleCache
    /\ IdleAI
    /\ IdleRouter

FailoverQuery == <<"a">>

FallbackRequest ==
    \E outcome \in [EnabledProviders -> ProviderOutcomes] :
       SearchWithFallback(FailoverQuery, 1, outcome)

ComprehensiveRequest ==
    \E outcome \in [EnabledProviders -> ProviderOutcomes] :
       ComprehensiveSearch(FailoverQuery, ComprehensiveResults, outcome)

NextFailover ==
    \/ FallbackRequest /\ UNCHANGED history_vars
    \/ ComprehensiveRequest /\ UNCHANGED history_vars

SpecFailover == InitFailover /\ [][NextFailover]_vars

\* The cache as search requests use it.
NextSearch ==
    \/ SearchRequest /\ UNCHANGED history_vars
    \/ CacheLookup /\ UNCHANGED history_vars
    \/ ClearCache /\ UNCHANGED history_vars
    \/ CacheTick /\ UNCHANGED history_vars

SpecSearch == InitCache /\ [][NextSearch]_vars

\* ------------------------------------------------------------------------
\* ProductionSearchManager, the cache used by the threads of several
\* sessions: lookups statement by statement beside saves and the clock
\* ------------------------------------------------------------------------
\* The key the sessions ask for.
SharedKey == RequestKey(<<"a">>, 1)

Lookup == \E t \in Threads : LookupBegin(t, SharedKey)

LookupNext == \E t \in Threads : LookupStep(t)

SharedSave == \E results \in Results : SaveToCache(SharedKey, results, "bing")

NextLookups ==
    \/ Lookup /\ UNCHANGED history_vars
    \/ LookupNext /\ UNCHANGED history_vars
    \/ SharedSave /\ UNCHANGED history_vars
    \/ CacheTick /\ UNCHANGED history_vars

SpecLookups == InitCache /\ [][NextLookups]_vars

\* ------------------------------------------------------------------------
\* Properties of the provider registries
\* ------------------------------------------------------------------------
Threshold(rec) == rec.max_errors

\* (priority, counter) of a is strictly below that of b.
PairBelow(pa, ca, pb, cb) == pa < pb \/ (pa = pb /\ ca < cb)

\* C1: the provider get_best_provider returns, and every provider
\* _get_provider_order lists, has a failure count below its max_errors when
\* the call returns, unless no provider of the group was below its
\* threshold (the global reset).
C1_SelectedBelowThreshold ==
    /\ best \in AIProviders =>
          \/ providers[best].consecutive_failures < Threshold(providers[best])
          \/ \A q \in AIProviders :
                providers[q].consecutive_failures >= Threshold(providers[q])
    /\ order # NoOrder =>
          \A i \in 1..Len(order) :
             search_providers[order[i]].error_count
                < Threshold(search_providers[order[i]])

\* A selection made while a provider of better priority is over its threshold.
C1_Witness ==
    \/ /\ best \in AIProviders
       /\ \E q \in AIProviders :
             /\ providers[q].priority < providers[best].priority
             /\ providers[q].client
             /\ providers[q].consecutive_failures >= Threshold(providers[q])
    \/ /\ order # NoOrder
       /\ Len(order) > 0
       /\ \E q \in SearchProviders :
             /\ search_providers[q].enabled
             /\ search_providers[q].priority < search_providers[order[1]].priority
             /\ search_providers[q].error_count >= Threshold(search_providers[q])

\* C2: counted from a healthy provider with counter 0, the provider is
\* healthy after fewer than max_errors failures in a row and unhealthy from
\* the max_errors-th on; a recorded success leaves it healthy with counter
\* 0 and last_success set to the current time.
C2_BreakerTripsAndRecovers ==
    /\ [](\A p \in AIProviders :
            streak[p] >= 0 =>
               /\ providers[p].consecutive_failures = streak[p]
               /\ providers[p].available <=> streak[p] < Threshold(providers[p]))
    /\ [][\A p \in AIProviders :
            RecordSuccess(p) =>
               /\ providers'[p].available
               /\ providers'[p].consecutive_failures = 0
               /\ providers'[p].last_success = now
               /\ streak'[p] = 0]_vars

\* A provider just made unhealthy by its max_errors-th failure in a row.
C2_Witness ==
    \E p \in AIProviders :
       /\ streak[p] = Threshold(providers[p])
       /\ ~providers[p].available

\* C3: the reprobe of get_best_provider re-enables a provider disabled at
\* time T at no time before T + cooldown, and does re-enable it in a call
\* made after T + cooldown.
C3_CooldownFromDisable ==
    [][\A p \in AIProviders :
          (best' # NoCall /\ ~providers[p].available /\ disabled_at[p] # NoTime) =>
             /\ providers'[p].available => now >= disabled_at[p] + Cooldown
             /\ now > disabled_at[p] + Cooldown => providers'[p].available]_vars

\* C4: with a provider configured, get_best_provider never returns None.
C4_NeverNone ==
    (\E p \in AIProviders : providers[p].client) => best # NoneValue

\* A provider that failures have disabled / that can be selected again.
AIDisabled(p) ==
    /\ providers[p].client
    /\ ~providers[p].available
    /\ providers[p].consecutive_failures >= Threshold(providers[p])

AISelectable(p) ==
    /\ providers[p].available
    /\ providers[p].consecutive_failures < Threshold(providers[p])

SearchDisabled(p) ==
    /\ search_providers[p].enabled
    /\ search_providers[p].error_count >= Threshold(search_providers[p])

\* C5: a provider that failures have disabled becomes selectable again
\* without a reset, while the clock has a cooldown left to advance.
C5_NoPermanentExile ==
    /\ \A p \in AIProviders :
          [](AIDisabled(p) /\ now + Cooldown < MaxTime => <>AISelectable(p))
    /\ \A p \in SearchProviders :
          [](SearchDisabled(p) => <>IsProviderAvailable(search_providers, p))

\* C6: a provider whose consecutive failures reached max_errors is not
\* available.
C6_OverThresholdUnavailable ==
    \A p \in AIProviders :
       providers[p].consecutive_failures >= Threshold(providers[p])
          => ~providers[p].available

\* A provider over its threshold, after failures were recorded.
C6_Witness ==
    \E p \in AIProviders :
       /\ providers[p].consecutive_failures > Threshold(providers[p])
       /\ providers[p].last_success # NoTime

\* C7: no provider that passes the health filter has a (priority,
\* failures) pair strictly below that of the provider returned, and the
\* search order lists the available providers by ascending pair.
C7_SelectedIsMinimum ==
    /\ best \in AIProviders =>
          /\ best \in HealthFilter(providers)
          /\ \A q \in HealthFilter(providers) :
                ~PairBelow(providers[q].priority,
                           providers[q].consecutive_failures,
                           providers[best].priority,
                           providers[best].consecutive_failures)
    /\ order # NoOrder =>
          /\ {order[i] : i \in 1..Len(order)}
                = {p \in SearchProviders :
                      IsProviderAvailable(search_providers, p)}
          /\ \A i, j \in 1..Len(order) :
                i < j =>
                   PairBelow(search_providers[order[i]].priority,
                             search_providers[order[i]].error_count,
                             search_providers[order[j]].priority,
                             search_providers[order[j]].error_count)

\* A selection among several candidates of which the first in dict order
\* is not the only one, with failures recorded on the one returned.
C7_Witness ==
    \/ /\ best \in AIProviders
       /\ Cardinality(HealthFilter(providers)) >= 3
       /\ providers[best].consecutive_failures > 0
    \/ /\ order # NoOrder
       /\ Len(order) >= 3
       /\ search_providers[order[1]].error_count > 0

\* ------------------------------------------------------------------------
\* Properties of the result cache
\* ------------------------------------------------------------------------
\* Seconds since the save that is followed.
AgeOfPut == now - put_log.timestamp

\* C11: a lookup of key k made less than the TTL after the last save of v
\* under k (no clear_cache in between) returns v; one made more than the
\* TTL after it returns None.
C11_CacheRoundTrip ==
    [][(cache_op'.op = "get" /\ put_log # NoPut /\ cache_op'.key = put_log.key) =>
          /\ AgeOfPut < CacheTTL => cache_op'.result = put_log.results
          /\ AgeOfPut > CacheTTL => cache_op'.result = NoneValue]_vars

\* A lookup that missed a value saved more than the TTL before.
C11_Witness ==
    /\ cache_op.op = "get"
    /\ cache_op.key = put_log.key
    /\ cache_op.result = NoneValue
    /\ AgeOfPut > CacheTTL

\* The cache without key k.
Without(c, k) == [j \in DOMAIN c \ {k} |-> c[j]]

\* C12: a lookup of a key whose entry is older than the TTL returns None
\* and removes that entry and no other; a lookup of an absent key returns
\* None and changes nothing; a lookup of a key whose entry is younger than
\* the TTL changes nothing; an entry leaves the cache only by clear_cache
\* or by a lookup of its own key once it has expired.
C12_LookupFrame ==
    [][/\ \A k \in CacheKeys :
             (cache_op'.op = "get" /\ cache_op'.key = k) =>
                IF k \notin DOMAIN cache
                THEN cache_op'.result = NoneValue /\ cache' = cache
                ELSE /\ now - cache[k].timestamp > CacheTTL =>
                           /\ cache_op'.result = NoneValue
                           /\ cache' = Without(cache, k)
                     /\ now - cache[k].timestamp < CacheTTL => cache' = cache
       /\ \A k \in DOMAIN cache :
             k \notin DOMAIN cache' =>
                \/ cache_op'.op = "clear"
                \/ /\ cache_op'.op \in {"get", "search"}
                   /\ cache_op'.key = k
                   /\ now - cache[k].timestamp >= CacheTTL]_vars

\* A lookup removed an expired entry and left another entry in the cache.
C12_Witness ==
    /\ cache_op.op = "get"
    /\ cache_op.result = NoneValue
    /\ cache_op.expired
    /\ cache_op.key \notin DOMAIN cache
    /\ DOMAIN cache # {}

\* The query without its leading and trailing spaces.
Normalized(query) ==
    LET kept == {i \in 1..Len(query) : query[i] # Space}
    IN IF kept = {} THEN <<>>
       ELSE SubSeq(query,
                   CHOOSE i \in kept : \A j \in kept : i <= j,
                   CHOOSE i \in kept : \A j \in kept : i >= j)

Table == IF call.service \in services THEN service_methods[call.service] ELSE {}

InTable(op) == op \in Table

\* How many patterns of the list the invocation is through with.
Processed ==
    IF call.pc = "loop" THEN call.i - 1
    ELSE IF ret.status = "returned" THEN call.i
    ELSE IF ret.status = "method_not_found" THEN Len(call.patterns)
    ELSE 0

\* Positions of the patterns that are in the table and return a truthy result.
Good ==
    {k \in 1..Len(call.patterns) :
        InTable(call.patterns[k]) /\ call.behaviour[call.patterns[k]] = "truthy"}

\* C8: the router calls exactly the patterns present in the table, in the
\* order of the list, and logs a failure for no absent pattern; a truthy
\* result is returned, its operation was called once and it is the last
\* one called.
C8_OnlyPresentPatternsInOrder ==
    call.pc \in {"loop", "done"} =>
       /\ invoked = SelectSeq(SubSeq(call.patterns, 1, Processed), InTable)
       /\ \A k \in 1..Len(warned) : InTable(warned[k])
       /\ ret.status = "returned" =>
             /\ Len(invoked) > 0
             /\ ret = ResultOf(invoked[Len(invoked)])
             /\ call.behaviour[ret.producer] = "truthy"
             /\ Cardinality({k \in 1..Len(invoked) : invoked[k] = ret.producer}) = 1

\* Patterns [foo, bar] against a table holding only bar: bar was called
\* once and its result returned.
C8_Witness ==
    /\ call.pc = "done"
    /\ call.patterns = <<"foo", "bar">>
    /\ Table = {"bar"}
    /\ invoked = <<"bar">>
    /\ warned = <<>>
    /\ ret = ResultOf("bar")

\* C9: when a pattern of the list is present in the table and returns a
\* truthy result, the router returns the result of the first such pattern,
\* whatever the present patterns before it raised or returned.
C9_ContinuesPastFailures ==
    (call.pc = "done" /\ call.service \in services /\ Good # {}) =>
       \E k \in Good :
          /\ \A j \in Good : k <= j
          /\ ret = ResultOf(call.patterns[k])

\* A result returned after one operation raised and another returned
\* nothing.
C9_Witness ==
    /\ call.pc = "done"
    /\ ret.status = "returned"
    /\ \E j, k \in 1..Len(invoked) :
          /\ call.behaviour[invoked[j]] = "raises"
          /\ call.behaviour[invoked[k]] = "falsy"

\* C10: a result that is not an operation's own result names the service,
\* the patterns tried and the operations available on the service.
C10_FailureDiagnostics ==
    (call.pc = "done" /\ ret.status # "returned") =>
       /\ ret.service = call.service
       /\ {"tried_patterns", "available_methods"} \subseteq ret.keys
       /\ ret.tried_patterns = call.patterns
       /\ ret.available_methods = Table

\* ------------------------------------------------------------------------
\* Properties of the pipeline executor
\* ------------------------------------------------------------------------
\* The services a stage function asks the router for, and the helper it
\* turns to.
ServicesOf(stage) ==
    CASE stage = "pesquisa_web_massiva" -> {"websailor"}
      [] stage = "analise_redes_sociais" -> {"supadata"}
      [] stage = "drivers_mentais_customizados" -> {"mental_drivers"}
      [] stage = "provas_visuais_arsenal" -> {"visual_proofs"}
      [] stage = "sistema_anti_objecao" -> {"anti_objection"}
      [] stage = "pre_pitch_invisivel" -> {"pre_pitch"}
      [] stage = "predicoes_futuro_detalhadas" -> {"future_prediction"}
      [] stage = "insights_exclusivos" -> {"content_extractor"}
      [] stage = "palavras_chave_estrategicas" -> {"ai_manager", "content_extractor"}
      [] OTHER -> {"ai_manager"}

HelpersOf(stage) ==
    CASE stage = "pesquisa_web_massiva" -> {"enhanced_search_coordinator"}
      [] stage = "analise_redes_sociais" -> {"enhanced_mcp_fallback_manager"}
      [] OTHER -> {}

\* The stage has neither a registered service nor a helper.
NoProvider(stage) ==
    /\ \A s \in ServicesOf(stage) : ~Registered(s)
    /\ \A h \in HelpersOf(stage) : helpers[h] = "none"

\* The router was asked, returned its failure object for every service of
\* the stage, and the stage's helper had no results either.
RouterFailed(stage) ==
    /\ \E s \in ServicesOf(stage) : Registered(s)
    /\ \A s \in ServicesOf(stage) :
          Registered(s) => service_kind[s] = "method_not_found"
    /\ \A h \in HelpersOf(stage) : helpers[h] \in {"none", "nothing"}

\* The status of the session of the run.
SessionStatus ==
    IF pipeline.session \in DOMAIN execution_state
    THEN execution_state[pipeline.session].status ELSE NoneValue

\* A run with data has returned.
RunReturned == pipeline.pc = "done" /\ executed # <<>>

\* The run went through the consolidation.
Consolidated ==
    /\ RunReturned
    /\ executed[Len(executed)] = FinalStage

\* The envelope holds one result for each stage.
CarriesStageResults ==
    /\ envelope.stage_results # NoneValue
    /\ DOMAIN envelope.stage_results = Stages

\* C14: a run in which a stage has no service or helper available ends
\* with session status completed and success true; that stage's result has
\* status fallback with the stage's own payload, and every stage has a
\* result.
C14_UnservedStageFallsBack ==
    RunReturned =>
       \A stage \in Stages :
          NoProvider(stage) =>
             /\ envelope.success
             /\ SessionStatus = "completed"
             /\ DOMAIN stage_results = Stages
             /\ stage_results[stage] = Res("fallback", "synthesized")

\* C15: when the consolidation raises, the run ends with session status
\* error and a failure envelope (success false, with the error) that holds
\* the results of all the stages.
C15_ConsolidationFailure ==
    (Consolidated /\ envelope.report.generator = "error_fallback") =>
       /\ SessionStatus = "error"
       /\ ~envelope.success
       /\ "error" \in envelope.keys
       /\ CarriesStageResults

\* C16: when a run ends completed, the success envelope holds the map of
\* stage results, with exactly one result for each stage, and the report.
C16_CompletedCarriesStageResults ==
    (Consolidated /\ SessionStatus = "completed") =>
       /\ envelope.success
       /\ "report" \in envelope.keys
       /\ CarriesStageResults
       /\ envelope.stage_results = stage_results

\* C17: when the router returns its failure object for a stage, the result
\* stored for the stage has status fallback and is the stage's own payload,
\* never the router's object.
C17_RouterFailureBecomesFallback ==
    \A stage \in DOMAIN stage_results :
       RouterFailed(stage) =>
          stage_results[stage] = Res("fallback", "synthesized")

\* The statuses of a StageResult.
StageStatuses == {"success", "fallback", "error"}

\* C18: every stage result has status success, fallback or error.
C18_StatusInEnum ==
    \A stage \in DOMAIN stage_results :
       stage_results[stage].status \in StageStatuses

\* C19: a run calls the stage functions in the declared order, each once,
\* and then the consolidation, whatever the stages return or raise.
C19_AllStagesInOrder ==
    /\ Len(executed) <= Len(StageNames) + 1
    /\ \A k \in 1..Len(executed) :
          executed[k] = IF k <= Len(StageNames) THEN StageNames[k] ELSE FinalStage
    /\ \A k \in 1..Len(executed) :
          k <= Len(StageNames) => StageNames[k] \in DOMAIN stage_results
    /\ pipeline.pc = "consolidate" => executed = StageNames
    /\ RunReturned => executed = Append(StageNames, FinalStage)

\* A run that returned after one stage raised and another got the router's
\* failure object.
C19_Witness ==
    /\ Consolidated
    /\ \E stage \in DOMAIN stage_results :
          stage_results[stage] = ErrorResult
    /\ \E stage \in DOMAIN stage_results : RouterFailed(stage)

\* C20: the data validation of the success envelope reports no fallback
\* exactly when no stage result has status fallback.
C20_FallbacksReported ==
    (Consolidated /\ envelope.success) =>
       (envelope.zero_fallbacks_used <=> FallbacksUsed(stage_results) = 0)

\* ------------------------------------------------------------------------
\* Properties of the runs that report their progress
\* ------------------------------------------------------------------------
\* The callback of each index followed by the call of its stage, up to
\* index n.
RECURSIVE Alternation(_)
Alternation(n) ==
    IF n = 0 THEN <<>>
    ELSE Alternation(n - 1) \o <<CallbackEvent(n), StageEvent(n)>>

IsPrefix(a, b) ==
    /\ Len(a) <= Len(b)
    /\ \A k \in 1..Len(a) : a[k] = b[k]

\* execute_synchronized_analysis has returned from a run with data.
RunEnded == pipeline.pc = "done" /\ progress # <<>>

\* C21: in every run the callback is invoked once for each index from 1 to
\* the consolidation's, in increasing order, each invocation after the
\* stage before it has returned and before its own stage is called.
C21_CallbackBeforeEachStage ==
    callback.given =>
       /\ IsPrefix(progress, Alternation(FinalIndex))
       /\ RunEnded => progress = Alternation(FinalIndex)

\* C22: a callback that raises does not change the outcome of the run: all
\* the stages and the consolidation are executed and the run ends
\* completed with success true.
C22_RaisingCallbackSwallowed ==
    (RunEnded /\ callback.given /\ callback.raises_at # 0) =>
       /\ executed = Append(StageNames, FinalStage)
       /\ envelope.success
       /\ SessionStatus = "completed"

\* C26: an exception raised inside a run does not escape
\* execute_synchronized_analysis: the run returns the failure envelope
\* with success false, the error and the stage results that exist.
C26_FailureEnvelopeKeepsResults ==
    (RunEnded /\ ~envelope.success) =>
       /\ "error" \in envelope.keys
       /\ envelope.stage_results # NoneValue
       /\ envelope.stage_results = stage_results

\* C27: once execute_synchronized_analysis has returned for a session, the
\* stored status of the session is completed or error, never running.
C27_NeverLeftRunning ==
    RunEnded => SessionStatus \in {"completed", "error"}

\* ------------------------------------------------------------------------
\* Properties of the session routes
\* ------------------------------------------------------------------------
\* The transitions of a session's status the state machine has.
AllowedTransitions ==
    {<<"running", "completed">>, <<"running", "error">>,
     <<"running", "paused">>, <<"paused", "running">>}

\* C23: whatever the interleaving of a running analysis with pause and
\* resume requests, a session's status moves only from running to
\* completed, error or paused and from paused to running.
C23_OnlyAllowedTransitions ==
    [][\A session \in DOMAIN active_sessions :
          /\ session \in DOMAIN active_sessions'
          /\ active_sessions'[session] # active_sessions[session] =>
                <<active_sessions[session], active_sessions'[session]>>
                   \in AllowedTransitions]_vars

\* C24: no stage of a session starts while the session is paused.
C24_NoStageWhilePaused ==
    [][(Len(executed') > Len(executed) /\ request.pc = "executing") =>
          active_sessions[request.session] # "paused"]_vars

\* The request's segmento or produto is missing or empty.
Incomplete(req) == req.segmento \in {Absent, ""} \/ req.produto \in {Absent, ""}

\* What a run of the executor writes.
executor_vars ==
    <<pipeline, stage_results, executed, execution_state, envelope, callback,
      progress>>

\* C25: a request whose segmento or produto is missing or empty is
\* answered with 400 and the executor is not entered: no stage function
\* and no progress callback is called for it.
C25_IncompleteRequestRejected ==
    /\ [](Incomplete(request) /\ request.pc # "idle" =>
             /\ request.pc = "rejected"
             /\ pipeline.session # request.session)
    /\ [][(request' # request /\ Incomplete(request')) =>
             /\ response' = Reply("analyze", 400, request'.session)
             /\ UNCHANGED executor_vars]_vars

\* A request with a segmento and an empty produto was rejected before any
\* run of the executor.
C25_Witness ==
    /\ request.pc = "rejected"
    /\ request.segmento = "fitness"
    /\ request.produto = ""
    /\ response.code = 400
    /\ execution_state = <<>>
    /\ progress = <<>>

\* ------------------------------------------------------------------------
\* Properties of the search entry points
\* ------------------------------------------------------------------------
\* How often provider p is in the sequence of providers.
Occurrences(seq, p) == Cardinality({k \in 1..Len(seq) : seq[k] = p})

\* C28: every invocation of a provider that ends in an error is recorded
\* as one failure on that provider's counter, in search_with_fallback and
\* in comprehensive_search alike.
C28_EveryErrorRecorded ==
    [][cache_op'.op \in {"search", "comprehensive"} =>
          \A p \in SearchProviders :
             search_providers'[p].error_count =
                search_providers[p].error_count + Occurrences(cache_op'.raised, p)]_vars

\* ------------------------------------------------------------------------
\* Properties of the session store
\* ------------------------------------------------------------------------
\* emergency_reset is inside its critical section.
Resetting == reset.pc # "idle"

Quiet == \A c \in Callers : callers[c].pc = "idle"

\* C30: concurrent calls on one provider are serialized: after N calls of
\* _record_failure and no call of _record_success the counter is N, and
\* the provider is available exactly when its counter is below the
\* threshold.
C30_NoLostUpdate ==
    Quiet =>
       \A p \in AIProviders :
          (providers[p].client /\ tally[p].successes = 0) =>
             /\ providers[p].consecutive_failures = tally[p].failures
             /\ providers[p].available <=>
                   providers[p].consecutive_failures < providers[p].max_errors

\* ------------------------------------------------------------------------
\* Properties of a run whose session entry is removed
\* ------------------------------------------------------------------------
\* The run has gone through its twelve stages and the final report.
WentThroughAllStages ==
    /\ pipeline.pc = "done"
    /\ Len(executed) = Len(StageNames) + 1

\* C37: a run whose session entry was removed from execution_state while
\* its stages were executing still returns its success envelope.
C37_RemovalKeepsSuccess == WentThroughAllStages => envelope.success

\* ------------------------------------------------------------------------
\* Properties of a rejected start request
\* ------------------------------------------------------------------------
\* C39: after a start request is rejected with 400 for a missing segmento
\* or produto, no session of that request is left with status running.
C39_RejectedLeavesNoRunning ==
    (request.pc = "rejected" /\ response = Reply("analyze", 400, request.session)) =>
       /\ request.session \notin DOMAIN execution_state
       /\ \/ request.session \notin DOMAIN active_sessions
          \/ active_sessions[request.session] # "running"

\* ------------------------------------------------------------------------
\* Properties of the operation tables
\* ------------------------------------------------------------------------
\* C35: after the orchestrator is constructed, no router invocation, run,
\* progress read or reset adds, removes or replaces an entry of the
\* operation table of a service, or a service.
C35_TablesWrittenOnce == [][UNCHANGED <<services, service_methods>>]_vars

\* A router invocation has called an operation found in the table of its
\* service and has its result.
C35_Witness ==
    /\ call.pc = "done"
    /\ invoked # <<>>
    /\ invoked[1] \in service_methods[call.service]
    /\ service_methods[call.service] # OpNames

\* ------------------------------------------------------------------------
\* Properties of the generation path
\* ------------------------------------------------------------------------
\* What get_best_provider would return for the registry ps at time t.
SelectBestOf(ps, t) ==
    LET reprobed == Reprobe(ps, t)
        after == IF HealthFilter(reprobed) = {}
                 THEN GlobalReset(reprobed) ELSE reprobed
    IN AIHead(after, AICandidates(reprobed))

\* The provider a request attempted first, None when it attempted none.
FirstAttempted(a) ==
    IF a.invoked = <<>> THEN NoneValue ELSE a.invoked[1].provider

\* C36: the provider generate_response attempts first is the provider
\* get_best_provider would return for the registry the request finds
\* (after the same cooldown reprobe and health filter).
C36_GenerationFollowsSelection ==
    [][(answer' # answer /\ answer'.valid) =>
          FirstAttempted(answer') = SelectBestOf(providers, now)]_vars

\* The providers request a attempted, in the order of the attempts.
AttemptedBy(a) == [k \in 1..Len(a.invoked) |-> a.invoked[k].provider]

\* The attempts of request a that ended in an exception.
RaisedIn(a) ==
    {a.invoked[k].provider :
        k \in {j \in 1..Len(a.invoked) : a.invoked[j].outcome = "raises"}}

\* C40: generate_response always returns a dict; it invokes no provider
\* whose available flag is false, goes through gemini, groq, openai and
\* huggingface in that order, and returns success with the first provider
\* that yields content, which is left with consecutive_failures 0 and
\* available, while every provider that raised before it has its counter
\* one higher; it returns success false when no attempted provider yields
\* content, and then every usable provider was attempted.
C40_GenerationContract ==
    [][(answer' # answer /\ answer'.valid) =>
          LET a == answer'
              n == Len(a.invoked)
          IN /\ a.given
             /\ \A k \in 1..n : providers[a.invoked[k].provider].available
             /\ \A j, k \in 1..n :
                   j < k => AIIndex(a.invoked[j].provider)
                               < AIIndex(a.invoked[k].provider)
             /\ \A k \in 1..n - 1 : a.invoked[k].outcome # "content"
             /\ a.success <=> (n > 0 /\ a.invoked[n].outcome = "content")
             /\ a.success =>
                   /\ a.provider = a.invoked[n].provider
                   /\ providers'[a.provider].consecutive_failures = 0
                   /\ providers'[a.provider].available
             /\ \A q \in RaisedIn(a) :
                   providers'[q].consecutive_failures =
                      providers[q].consecutive_failures + 1
             /\ ~a.success =>
                   \A q \in AIProviders :
                      (providers[q].available /\ providers[q].client) =>
                         \E k \in 1..n : a.invoked[k].provider = q]_vars

\* A request found its first provider raising and got its content from
\* the next one.
C40_Witness ==
    /\ answer.success
    /\ Len(answer.invoked) = 2
    /\ answer.invoked[1].outcome = "raises"
    /\ providers[answer.invoked[1].provider].client
    /\ providers[answer.invoked[1].provider].consecutive_failures = 1
    /\ providers[answer.provider].consecutive_failures = 0

\* ------------------------------------------------------------------------
\* Properties of the cache under concurrent lookups
\* ------------------------------------------------------------------------
\* C32: whatever the interleaving of lookups and saves of several
\* sessions on one key, each lookup returns a stored result list or a
\* miss and none ends in an error; the cache map keeps well-formed
\* entries.
C32_ConcurrentLookupsSafe ==
    /\ \A t \in Threads : threads[t].result \in Results \cup {"miss", NoneValue}
    /\ \A k \in DOMAIN cache : cache[k].results \in Results

\* ------------------------------------------------------------------------
\* Properties of the session store used by several threads
\* ------------------------------------------------------------------------
\* C31: every step that inserts a session, changes its status, removes
\* sessions or changes the recursion-guard map is taken while sync_lock
\* is held.
C31_MutationsUnderLock ==
    [][(execution_state' # execution_state
           \/ recursion_depth' # recursion_depth) => sync_lock # "free"]_vars

\* The operation that holds sync_lock is inside its `with` block.
InCriticalSection ==
    \/ sync_lock = "emergency_reset" /\ Resetting
    \/ /\ sync_lock \in Threads
       /\ threads[sync_lock].pc \in {"insert", "status", "remove"}

\* C34: sync_lock is never held by a run that is in one of its stages,
\* nor by anything but an operation inside its short critical section, so
\* a session waiting in a stage keeps no other session from inserting its
\* state, advancing, reading progress or completing.
C34_LockNotHeldInStages ==
    /\ \A t \in Threads : threads[t].pc = "stages" => sync_lock # t
    /\ sync_lock # "free" => InCriticalSection

\* While one run waits in its third stage, the run of another session is
\* inside the critical section that marks it completed.
C34_Witness ==
    /\ threads["t1"].pc = "stages"
    /\ threads["t1"].i = 3
    /\ threads["t2"].pc = "status"
    /\ sync_lock = "t2"
    /\ threads["t2"].session \in DOMAIN execution_state

\* The recursion-guard entries of the sessions other than session.
GuardsOfOthers(depth, session) ==
    [k \in DOMAIN depth \ {session} |-> depth[k]]

\* C33: when a run starts or the outer handler takes an exception of a
\* run, the recursion-guard entries of the other sessions stay as they
\* are.
C33_OtherGuardsKept ==
    [][\A t \in Threads :
          (threads[t].pc \in {"clear", "except"} /\ threads'[t] # threads[t]) =>
             GuardsOfOthers(recursion_depth', threads[t].session) =
                GuardsOfOthers(recursion_depth, threads[t].session)]_vars

\* C38: reset_session(s) leaves the session entry and the recursion-guard
\* entries of every other session as they are, also when s is a substring
\* of the other session's identifier.
C38_ResetFrame ==
    [][\A t \in Threads :
          (threads[t].op = "reset_session" /\ threads[t].pc = "remove"
              /\ threads'[t] # threads[t]) =>
             \A other \in ThreadSessions \ {threads[t].session} :
                /\ other \in DOMAIN execution_state =>
                      /\ other \in DOMAIN execution_state'
                      /\ execution_state'[other] = execution_state[other]
                /\ other \in DOMAIN recursion_depth =>
                      /\ other \in DOMAIN recursion_depth'
                      /\ recursion_depth'[other] = recursion_depth[other]]_vars

====
